---- MODULE Spec2Model ----
(***************************************************************************)
(* The reactivity and scheduling core: Dep (observer/dep.js), the target   *)
(* stack, Watcher (observer/watcher.js) and the scheduler                  *)
(* (observer/scheduler.js).                                                *)
(*                                                                         *)
(* JavaScript is single threaded but re-entrant: a getter or a callback is *)
(* user code that reads and writes reactive properties, tears watchers     *)
(* down and throws.  The model keeps an explicit call stack; every action  *)
(* is one step of the frame on top of it.  User code is either free (any   *)
(* operation, a bounded number of them per invocation) or a fixed script.  *)
(***************************************************************************)
EXTENDS Integers, Sequences, FiniteSets, TLC

\* ------------------------------------------------------------- constants

\* scheduler.js: export const MAX_UPDATE_COUNT = 100
MAX_UPDATE_COUNT == 100

\* ----------------------------------------------------------------- bounds

\* Number of Deps (one per reactive property).
NumDeps == 3
\* Deps user code reads and writes under Spec.
NumSpecDeps == 1
\* Size of the watcher table; watcher ids are 1..MaxWatchers.
MaxWatchers == 3
\* Watchers created under Spec and under SpecLoop.
NumWatchers == 2
\* Operations one invocation of free user code performs at most.
MaxOps == 2
\* Depth of the call stack.
MaxDepth == 3
\* Watcher runs in one flush under Spec.
MaxFlushRuns == 2
\* Watcher runs in one flush under SpecSched.
MaxSchedRuns == 4
\* Watcher runs in one flush under SpecLoop.
MaxLoopRuns == 206
\* update() calls between two flushes that are told apart under SpecLoop.
MaxUpdates == 2
\* Objects and arrays on the heap.
NumObjs == 3
\* Property names of a plain object.
NumKeys == 3
\* Length an array grows to.
MaxLen == 4
\* Deps created by the observer (one per Observer and per reactive property).
NumObsDeps == 8
\* Operations of the host program in one behaviour.
MaxHostOps == 3
\* Operations of the host program in one behaviour of SpecSet.
MaxSetOps == 2
\* Operations of the host program in one behaviour of SpecArr.
MaxArrOps == 2
\* Operations of the host program in one behaviour of SpecWatch.
MaxWatchOps == 4
MaxLazyOps == 3
\* Iterations of the loop of a flush that are followed under SpecHooks.
MaxHookRuns == 2
\* Operations of the host program in one behaviour of SpecThrow.
MaxThrowOps == 3
\* Operations of the host program in one behaviour of SpecDel.
MaxDelOps == 3
\* Operations of the host program in one behaviour of SpecChild.
MaxChildOps == 2
\* Objects on the heap of SpecNest.
NumNestObjs == 5
\* Operations of the host program in one behaviour of SpecNest.
MaxNestOps == 2
\* Operations of the host program in one behaviour of SpecTarget.
MaxTargetOps == 2
\* Nested activations of _traverse the model follows.
MaxTravDepth == 6
\* Operations of the host program in one behaviour of SpecDeep.
MaxDeepOps == 1
\* Functions that are registered as event handlers.
NumFns == 2
\* Calls of $once in one behaviour.
MaxOnce == 2
\* Handlers registered for the event at one time.
MaxHandlers == 2
\* Arrays made for vm._events[event] in one behaviour.
MaxEvArrays == 2
\* Nested activations of $emit and handlers the model follows.
MaxEmitDepth == 4
\* Operations one invocation of a handler does.
MaxFnOps == 1
\* Calls of $emit in one behaviour.
MaxEmits == 2
\* Activations on the call stack when config.async is false, where a flush
\* runs inside Dep.notify.
MaxSyncDepth == 5

Deps == 1..NumDeps
Watchers == 1..MaxWatchers

VARIABLES
    uid,          \* watcher.js: let uid (ids 1..uid have been constructed)
    watchers,     \* the Watcher objects, by id
    subs,         \* Dep.subs, by dep
    targetStack,  \* dep.js: const targetStack
    target,       \* Dep.target (0: null / undefined)
    queue,        \* scheduler.js: const queue (of watcher ids)
    has,          \* scheduler.js: has (the ids with has[id] = true)
    circular,     \* scheduler.js: circular
    waiting,      \* scheduler.js: waiting
    flushing,     \* scheduler.js: flushing
    index,        \* scheduler.js: index (0-based, as in the code)
    ticks,        \* callbacks handed to nextTick and not yet executed by the host
    stack,        \* the JavaScript call stack
    exc,          \* an exception is propagating
    flushRuns,    \* history: run() invocations per watcher in the current flush
    updates,      \* history: update() calls that reached queueWatcher since the last flush
    aborted,      \* history: the loop guard has aborted a flush
    heap,         \* the objects and arrays user code holds, by reference
    shouldObserve,    \* observer/index.js: export let shouldObserve
    serverRendering,  \* what isServerRendering() returns in this environment
    depUid,       \* dep.js: let uid (Deps created so far)
    value,        \* Watcher.value, by watcher id
    expr,         \* the expression a watcher's getter computes, by watcher id
    trace,        \* history: the callback invocations, <<watcher, new, old>>
    hostOp,       \* history: the last operation of the host program
    async,        \* config.async
    deep,         \* the watchers constructed with {deep: true}
    seenObjects,  \* traverse.js: const seenObjects (dep ids)
    trav,         \* the activations of _traverse: object and loop counter i
    evArrays,     \* the arrays made for vm._events[event], by id
    evCurrent,    \* vm._events[event]: the id of an array, 0 for none or null
    onceUid,      \* the wrappers $once has made (function on), 1..onceUid
    emitStack,    \* the activations of $emit and of the handlers it calls
    invoked,      \* history: how often each wrapper has called its fn
    emits,        \* history: the calls of $emit so far
    before,       \* the watchers constructed with options.before
    comp,         \* the component of each watcher: vm._watcher === watcher,
                  \* vm._isMounted, vm._isDestroyed, vm._inactive
    activatedChildren,  \* scheduler.js: const activatedChildren (components)
    activatedQueue,     \* flushSchedulerQueue: const activatedQueue
    updatedQueue,       \* flushSchedulerQueue: const updatedQueue
    fromHook      \* history: the watchers queueWatcher enqueued from an activated
                  \* or updated hook and no flush has called run() on since

depVars == <<uid, watchers, subs>>
tgtVars == <<targetStack, target>>
schedVars == <<queue, has, circular, waiting, flushing, index, ticks>>
vars == <<uid, watchers, subs, targetStack, target, queue, has, circular,
          waiting, flushing, index, ticks, stack, exc, flushRuns, updates, aborted>>
histVars == <<flushRuns, updates, aborted>>
deepVars == <<deep, seenObjects, trav>>
evVars == <<evArrays, evCurrent, onceUid, emitStack, invoked, emits>>
hookStateVars == <<before, comp, activatedChildren, activatedQueue, updatedQueue>>
hookVars == <<hookStateVars, fromHook>>
extVars == <<async, deepVars, evVars, hookVars>>
obsVars == <<heap, shouldObserve, serverRendering, depUid, value, expr, trace, hostOp,
             extVars>>
\* All of them but fromHook.
obsVarsH == <<heap, shouldObserve, serverRendering, depUid, value, expr, trace, hostOp,
              async, deepVars, evVars, hookStateVars>>
allVars == <<vars, obsVars>>

\* ---------------------------------------------------------------- helpers

SeqToSet(s) == {s[i] : i \in DOMAIN s}

Count(s, x) == Cardinality({i \in DOMAIN s : s[i] = x})

IndexOf(s, x) ==
    IF \E i \in DOMAIN s : s[i] = x
    THEN CHOOSE i \in DOMAIN s : s[i] = x /\ \A j \in 1..(i - 1) : s[j] # x
    ELSE 0

\* shared/util: remove(arr, item) splices out the first occurrence.
remove(arr, item) ==
    LET i == IndexOf(arr, item)
    IN  IF i = 0 THEN arr
        ELSE SubSeq(arr, 1, i - 1) \o SubSeq(arr, i + 1, Len(arr))

\* Array.prototype.sort((a, b) => a.id - b.id)
RECURSIVE SortById(_)
SortById(s) ==
    IF s = <<>> THEN <<>>
    ELSE LET r == SortById(SubSeq(s, 1, Len(s) - 1))
             x == s[Len(s)]
             k == Cardinality({i \in DOMAIN r : r[i] <= x})
         IN  SubSeq(r, 1, k) \o <<x>> \o SubSeq(r, k + 1, Len(r))

\* -------------------------------------------------------------- user code

\* A user function: free code doing operations of the kinds in may, or a
\* script of operations.
FreeOf(may) == [free |-> TRUE, ops |-> <<>>, may |-> may]
FreeFn == FreeOf({"read", "write", "teardown", "computed", "throw"})
Script(ops) == [free |-> FALSE, ops |-> ops, may |-> {}]
OpRead(d) == [t |-> "read", x |-> d]
OpWrite(d) == [t |-> "write", x |-> d]
OpTeardown(w) == [t |-> "teardown", x |-> w]
OpComputed(w) == [t |-> "computed", x |-> w]
OpThrow == [t |-> "throw", x |-> 0]
OpData == [t |-> "data", x |-> 0]
OpActivate(c) == [t |-> "activate", x |-> c]

\* ------------------------------------------------------------------ Dep

addSub(S, d, w) == [S EXCEPT ![d] = Append(@, w)]

\* A faulty removeSub, to try the properties on: nothing is removed.
removeSub_Keep(S, d, w) == S

removeSub(S, d, w) == [S EXCEPT ![d] = remove(@, w)]

\* -------------------------------------------------------------- Watcher
\* H is the object graph: [ws |-> the watchers, subs |-> the deps' subs].

\* A faulty constructor, to try the properties on: dirty starts false.
NewWatcher_Clean(l, s, u, g, c) ==
    [lazy |-> l, sync |-> s, user |-> u, active |-> TRUE, dirty |-> FALSE,
     deps |-> <<>>, newDeps |-> <<>>, depIds |-> {}, newDepIds |-> {},
     getter |-> g, cb |-> c]

NewWatcher(l, s, u, g, c) ==
    [lazy |-> l, sync |-> s, user |-> u, active |-> TRUE, dirty |-> l,
     deps |-> <<>>, newDeps |-> <<>>, depIds |-> {}, newDepIds |-> {},
     getter |-> g, cb |-> c]

\* A faulty addDep, to try the properties on: depIds is not looked at.
addDep_NoIdCheck(H, w, d) ==
    IF d \notin H.ws[w].newDepIds
    THEN [ws |-> [H.ws EXCEPT ![w].newDepIds = @ \cup {d},
                              ![w].newDeps = Append(@, d)],
          subs |-> addSub(H.subs, d, w)]
    ELSE H

addDep(H, w, d) ==
    IF d \notin H.ws[w].newDepIds
    THEN [ws |-> [H.ws EXCEPT ![w].newDepIds = @ \cup {d},
                              ![w].newDeps = Append(@, d)],
          subs |-> IF d \notin H.ws[w].depIds
                   THEN addSub(H.subs, d, w)
                   ELSE H.subs]
    ELSE H

\* Dep.depend with Dep.target = tgt
depend(H, d, tgt) == IF tgt # 0 THEN addDep(H, tgt, d) ELSE H

RECURSIVE cleanupLoop(_, _, _, _)
cleanupLoop(S, W, w, i) ==
    IF i = 0 THEN S
    ELSE cleanupLoop(IF W.deps[i] \notin W.newDepIds
                     THEN removeSub(S, W.deps[i], w)
                     ELSE S,
                     W, w, i - 1)

\* A faulty cleanupDeps, to try the invariants on: the loop that removes the
\* stale subscriptions is left out.
cleanupDeps_NoRemove(H, w) ==
    LET W == H.ws[w]
    IN  [ws |-> [H.ws EXCEPT ![w].depIds = W.newDepIds,
                             ![w].newDepIds = {},
                             ![w].deps = W.newDeps,
                             ![w].newDeps = <<>>],
         subs |-> H.subs]

cleanupDeps(H, w) ==
    LET W == H.ws[w]
    IN  [ws |-> [H.ws EXCEPT ![w].depIds = W.newDepIds,
                             ![w].newDepIds = {},
                             ![w].deps = W.newDeps,
                             ![w].newDeps = <<>>],
         subs |-> cleanupLoop(H.subs, W, w, Len(W.deps))]

RECURSIVE teardownLoop(_, _, _, _)
teardownLoop(S, W, w, i) ==
    IF i = 0 THEN S
    ELSE teardownLoop(removeSub(S, W.deps[i], w), W, w, i - 1)

teardown(H, w) ==
    IF H.ws[w].active
    THEN [ws |-> [H.ws EXCEPT ![w].active = FALSE],
          subs |-> teardownLoop(H.subs, H.ws[w], w, Len(H.ws[w].deps))]
    ELSE H

\* A faulty run(), to try the properties on: it does not look at active.
run_active_Always(w) == TRUE

\* Watcher.run: if (this.active)
run_active(w) == watchers[w].active

\* Watcher.depend of watcher w with Dep.target = tgt
RECURSIVE watcherDependLoop(_, _, _, _)
watcherDependLoop(H, w, tgt, i) ==
    IF i = 0 THEN H
    ELSE watcherDependLoop(depend(H, H.ws[w].deps[i], tgt), w, tgt, i - 1)

\* A faulty Watcher.depend, to try the invariants on: it does nothing.
watcherDepend_None(H, w, tgt) == H

watcherDepend(H, w, tgt) == watcherDependLoop(H, w, tgt, Len(H.ws[w].deps))

\* --------------------------------------------------------- target stack
\* T is [stack |-> targetStack, target |-> Dep.target].

\* A faulty pushTarget, to try the properties on: undefined is pushed but
\* does not become Dep.target.
pushTarget_KeepTarget(T, w) ==
    [stack |-> Append(T.stack, w), target |-> IF w = 0 THEN T.target ELSE w]

\* pushTarget(target); w = 0 for pushTarget() with no argument
pushTarget(T, w) == [stack |-> Append(T.stack, w), target |-> w]

popTarget(T) ==
    LET s == SubSeq(T.stack, 1, Len(T.stack) - 1)
    IN  [stack |-> s, target |-> IF s = <<>> THEN 0 ELSE s[Len(s)]]

\* ------------------------------------------------------- values and heap
\* A JavaScript value is [t |-> its type, v |-> a number or a reference].

Num(n) == [t |-> "num", v |-> n]
NaN == [t |-> "nan", v |-> 0]
Undef == [t |-> "undef", v |-> 0]
Bool(b) == [t |-> "bool", v |-> IF b THEN 1 ELSE 0]
Ref(o) == [t |-> "ref", v |-> o]

Objs == 1..NumObjs
Keys == 1..NumKeys
ObsDeps == 1..NumObsDeps

\* shared/util: isObject(obj), obj !== null && typeof obj === 'object'
isObject(v) == v.t = "ref"

\* newVal === value
StrictEq(a, b) == a = b /\ a.t # "nan"

\* Reactive property k of object o, as one number.
PropId(o, k) == (o - 1) * NumKeys + k
ObjOf(p) == ((p - 1) \div NumKeys) + 1
KeyOf(p) == ((p - 1) % NumKeys) + 1
Props == 1..(NumObjs * NumKeys)

\* ToBoolean(v)
Truthy(v) ==
    CASE v.t = "num" -> v.v # 0
      [] v.t = "bool" -> v.v = 1
      [] v.t = "ref" -> TRUE
      [] OTHER -> FALSE

\* a + b and a * 2 on numbers (NaN when an operand is not a number)
Plus(x, y) == IF x.t = "num" /\ y.t = "num" THEN Num(x.v + y.v) ELSE NaN
Twice(x) == IF x.t = "num" THEN Num(x.v * 2) ELSE NaN

\* ------------------------------------------------------------ getters
\* The getter functions given to watchers, as expressions over properties
\* p, q, r (PropId), a watcher w backing a computed property, an object o:
\*   PropE(p)        () => p
\*   CondE(p, q, r)  () => p ? q : r
\*   AddE(p, q)      () => p + q
\*   Mul2E(p)        () => p * 2
\*   CPlusE(w, p)    () => vm[the computed property of w] + p
\*   LenE(p)         () => p.length
\*   LenOfE(o)       () => o.length, o a variable of the closure

NoExpr == [e |-> "none", a |-> 0, b |-> 0, c |-> 0]
PropE(p) == [e |-> "prop", a |-> p, b |-> 0, c |-> 0]
CondE(p, q, r) == [e |-> "cond", a |-> p, b |-> q, c |-> r]
AddE(p, q) == [e |-> "add", a |-> p, b |-> q, c |-> 0]
Mul2E(p) == [e |-> "mul2", a |-> p, b |-> 0, c |-> 0]
CPlusE(w, p) == [e |-> "cplus", a |-> w, b |-> p, c |-> 0]
PlusCE(p, w) == [e |-> "plusc", a |-> p, b |-> w, c |-> 0]
LenE(p) == [e |-> "len", a |-> p, b |-> 0, c |-> 0]
LenOfE(o) == [e |-> "lenOf", a |-> o, b |-> 0, c |-> 0]
\* function () { if (this.p === undefined) throw new Error(); return this.p }
MustE(p) == [e |-> "must", a |-> p, b |-> 0, c |-> 0]
\* function () { var x = this.p; new Child({data: function () {...}});
\* return this.q }: a component whose data is a function is created between
\* the two reads, as a render function does
WithDataE(p, q) == [e |-> "withData", a |-> p, b |-> q, c |-> 0]

PropVal(p) == heap[ObjOf(p)].val[KeyOf(p)]

LengthOf(v) == IF isObject(v) THEN Num(Len(heap[v.v].elems)) ELSE Undef

\* The reads the getter does, in order, on the present heap.
Reads(e) ==
    CASE e.e = "prop" -> <<OpRead(e.a)>>
      [] e.e = "cond" -> <<OpRead(e.a), OpRead(IF Truthy(PropVal(e.a)) THEN e.b ELSE e.c)>>
      [] e.e = "add" -> <<OpRead(e.a), OpRead(e.b)>>
      [] e.e = "mul2" -> <<OpRead(e.a)>>
      [] e.e = "cplus" -> <<OpComputed(e.a), OpRead(e.b)>>
      [] e.e = "plusc" -> <<OpRead(e.a), OpComputed(e.b)>>
      [] e.e = "len" -> <<OpRead(e.a)>>
      [] e.e = "must" -> IF PropVal(e.a) = Undef
                         THEN <<OpRead(e.a), OpThrow>>
                         ELSE <<OpRead(e.a)>>
      [] e.e = "withData" -> <<OpRead(e.a), OpData, OpRead(e.b)>>
      [] OTHER -> <<>>

\* The value the getter returns on the present heap.
Val(e) ==
    CASE e.e = "prop" -> PropVal(e.a)
      [] e.e = "cond" -> IF Truthy(PropVal(e.a)) THEN PropVal(e.b) ELSE PropVal(e.c)
      [] e.e = "add" -> Plus(PropVal(e.a), PropVal(e.b))
      [] e.e = "mul2" -> Twice(PropVal(e.a))
      [] e.e = "cplus" -> Plus(value[e.a], PropVal(e.b))
      [] e.e = "plusc" -> Plus(PropVal(e.a), value[e.b])
      [] e.e = "len" -> LengthOf(PropVal(e.a))
      [] e.e = "lenOf" -> LengthOf(Ref(e.a))
      [] e.e = "must" -> PropVal(e.a)
      [] e.e = "withData" -> PropVal(e.b)
      [] OTHER -> Undef

\* ------------------------------------------------------------ call stack

Top == stack[Len(stack)]
Rest == SubSeq(stack, 1, Len(stack) - 1)

GetFrame(w, from, re) ==
    [k |-> "get", w |-> w, from |-> from, n |-> 0, i |-> 0, subs |-> <<>>,
     pc |-> "", touched |-> {}, re |-> re, start |-> {}]
CbFrame(w) ==
    [k |-> "cb", w |-> w, from |-> "run", n |-> 0, i |-> 0, subs |-> <<>>,
     pc |-> "", touched |-> {}, re |-> FALSE, start |-> {}]
\* A faulty notify(), to try the properties on: it always sorts.
NotifyFrame_Sorted(sb) ==
    [k |-> "notify", w |-> 0, from |-> "", n |-> 0, i |-> 1, subs |-> SortById(sb),
     pc |-> "", touched |-> {}, re |-> FALSE, start |-> {}]
\* Dep.notify: const subs = this.subs.slice(), i = 0.
NotifyFrame(sb) ==
    [k |-> "notify", w |-> 0, from |-> "", n |-> 0, i |-> 1, subs |-> sb,
     pc |-> "", touched |-> {}, re |-> FALSE, start |-> {}]
\* start (history): the watchers in the queue when the flush began.
DataFrame ==
    [k |-> "data", w |-> 0, from |-> "", n |-> 0, i |-> 0, subs |-> <<>>,
     pc |-> "", touched |-> {}, re |-> FALSE, start |-> {}]
FlushFrame(start) ==
    [k |-> "flush", w |-> 0, from |-> "", n |-> 0, i |-> 0, subs |-> <<>>,
     pc |-> "loop", touched |-> {}, re |-> FALSE, start |-> start]
\* A hook the scheduler calls: watcher.before() (from is "before", w the
\* watcher), the activated hook of component w or its updated hook.
HookFrame(w, from) ==
    [k |-> "hook", w |-> w, from |-> from, n |-> 0, i |-> 0, subs |-> <<>>,
     pc |-> "", touched |-> {}, re |-> FALSE, start |-> {}]
\* Is an activated or updated hook running?
InHook(st) == \E j \in DOMAIN st : st[j].k = "hook" /\ st[j].from \in {"activated", "updated"}

\* Dep.notify: the subscribers it walks, sorted when config.async is false.
notifySubs(sb) == IF async THEN sb ELSE SortById(sb)

\* The activations the model follows.
DepthCap == IF async THEN MaxDepth ELSE MaxSyncDepth

InUser == stack # <<>> /\ Top.k \in {"get", "cb", "data", "hook"}
AtTop == stack = <<>>

\* The user function frame f runs: the getter is the watcher's expression
\* when it has one.
Fn(f) ==
    IF f.k = "get"
    THEN IF expr[f.w].e # "none" THEN Script(Reads(expr[f.w])) ELSE watchers[f.w].getter
    ELSE IF f.k = "data" THEN FreeOf({"read", "computed", "throw"})
    ELSE IF f.k = "hook" THEN FreeOf({"write"})
    ELSE watchers[f.w].cb

\* May the running user code (or the host script, at the top level) do op?
MayDo(op) ==
    /\ ~exc
    /\ \/ AtTop
       \/ /\ InUser
          /\ IF Fn(Top).free
             THEN Top.n < MaxOps /\ op.t \in Fn(Top).may
             ELSE Top.n < Len(Fn(Top).ops) /\ Fn(Top).ops[Top.n + 1] = op

MayReturn ==
    /\ ~exc
    /\ InUser
    /\ Fn(Top).free \/ Top.n = Len(Fn(Top).ops)

\* The stack after the running user code has done one more operation.
Did(st) == IF st = <<>> THEN st ELSE [st EXCEPT ![Len(st)].n = @ + 1]

\* History: depend() was called on the deps ds with Dep.target = tgt; they are
\* recorded in the innermost get() of tgt.
RECURSIVE Touch(_, _, _)
Touch(st, tgt, ds) ==
    IF st = <<>> \/ tgt = 0 THEN st
    ELSE IF st[Len(st)].k = "get" /\ st[Len(st)].w = tgt
         THEN [st EXCEPT ![Len(st)].touched = @ \cup ds]
         ELSE Append(Touch(SubSeq(st, 1, Len(st) - 1), tgt, ds), st[Len(st)])

\* Entering get() of w: the frames of w already on the stack are re-entered.
PushGet(st, w, from) ==
    LET re == \E j \in DOMAIN st : st[j].k = "get" /\ st[j].w = w
    IN  Append([j \in DOMAIN st |->
                   IF st[j].k = "get" /\ st[j].w = w
                   THEN [st[j] EXCEPT !.re = TRUE]
                   ELSE st[j]],
               GetFrame(w, from, re))

\* ------------------------------------------------------------ objects

\* An object: kind is "plain" (isPlainObject), "array", "vnode" (instanceof
\* VNode) or "other"; ext is Object.isExtensible; vue is _isVue; ob is the id
\* of __ob__.dep (0: no __ob__); keys are the own enumerable properties, val
\* their values, dep[k] the Dep of the accessor defineReactive installed for
\* k (0: a data property) and childOb[k] the object whose Observer that
\* accessor holds (0: none); elems are the elements of an array and patched
\* says that its prototype is arrayMethods.  History: first is the value of
\* shouldObserve at the first observe() call on the object ("": no call yet),
\* anyOn says that some observe() call on it found shouldObserve true;
\* frozen is Object.isFrozen.
NewObj(kind, ext, vue, keys, val, elems) ==
    [kind |-> kind, ext |-> ext, vue |-> vue, ob |-> 0, vmCount |-> 0,
     keys |-> keys, val |-> val, dep |-> [k \in Keys |-> 0],
     childOb |-> [k \in Keys |-> 0], elems |-> elems, patched |-> FALSE,
     first |-> "", anyOn |-> FALSE, frozen |-> FALSE]

NoVals == [k \in Keys |-> Undef]

\* Object.keys(obj), in ascending order
RECURSIVE KeysSeq(_)
KeysSeq(ks) ==
    IF ks = {} THEN <<>>
    ELSE LET k == CHOOSE x \in ks : \A y \in ks : x <= y
         IN  <<k>> \o KeysSeq(ks \ {k})

\* ------------------------------------------------------------- observer
\* X is [heap, depUid, so |-> shouldObserve, ssr |-> isServerRendering()].

RECURSIVE observe(_, _, _)
RECURSIVE Observer(_, _)
RECURSIVE walk(_, _, _, _)
RECURSIVE observeArray(_, _, _)
RECURSIVE defineReactive(_, _, _, _, _, _)

\* History: observe() is called on object o.
Called(X, o) ==
    [X EXCEPT !.heap[o].first = IF @ = "" THEN (IF X.so THEN "on" ELSE "off") ELSE @,
              !.heap[o].anyOn = @ \/ X.so]

\* A faulty observe, to try the properties on: shouldObserve is looked at
\* before __ob__.
observe_FlagFirst(X, v, asRootData) ==
    IF ~isObject(v) THEN [X |-> X, ob |-> 0]
    ELSE IF X.heap[v.v].kind = "vnode" THEN [X |-> Called(X, v.v), ob |-> 0]
    ELSE LET o == v.v
             O == X.heap[o]
             X0 == Called(X, o)
             R == IF ~X.so THEN [X |-> X0, ob |-> 0]
                  ELSE IF O.ob # 0 THEN [X |-> X0, ob |-> o]
                  ELSE IF ~X.ssr /\ O.kind \in {"array", "plain"} /\ O.ext /\ ~O.vue
                       THEN [X |-> Observer(X0, o), ob |-> o]
                       ELSE [X |-> X0, ob |-> 0]
         IN  IF asRootData /\ R.ob # 0
             THEN [X |-> [R.X EXCEPT !.heap[R.ob].vmCount = @ + 1], ob |-> R.ob]
             ELSE R

\* A faulty observe, to try the invariants on: shouldObserve is not looked at.
observe_IgnoreFlag(X, v, asRootData) ==
    IF ~isObject(v) THEN [X |-> X, ob |-> 0]
    ELSE IF X.heap[v.v].kind = "vnode" THEN [X |-> Called(X, v.v), ob |-> 0]
    ELSE LET o == v.v
             O == X.heap[o]
             X0 == Called(X, o)
             R == IF O.ob # 0 THEN [X |-> X0, ob |-> o]
                  ELSE IF ~X.ssr /\ O.kind \in {"array", "plain"} /\ O.ext /\ ~O.vue
                       THEN [X |-> Observer(X0, o), ob |-> o]
                       ELSE [X |-> X0, ob |-> 0]
         IN  IF asRootData /\ R.ob # 0
             THEN [X |-> [R.X EXCEPT !.heap[R.ob].vmCount = @ + 1], ob |-> R.ob]
             ELSE R

\* observe(value, asRootData): ob is the object whose Observer is returned
\* (0: undefined).
observe(X, v, asRootData) ==
    IF ~isObject(v) THEN [X |-> X, ob |-> 0]
    ELSE IF X.heap[v.v].kind = "vnode" THEN [X |-> Called(X, v.v), ob |-> 0]
    ELSE LET o == v.v
             O == X.heap[o]
             X0 == Called(X, o)
             R == IF O.ob # 0
                  THEN [X |-> X0, ob |-> o]
                  ELSE IF /\ X.so
                          /\ ~X.ssr
                          /\ O.kind \in {"array", "plain"}
                          /\ O.ext
                          /\ ~O.vue
                       THEN [X |-> Observer(X0, o), ob |-> o]
                       ELSE [X |-> X0, ob |-> 0]
         IN  IF asRootData /\ R.ob # 0
             THEN [X |-> [R.X EXCEPT !.heap[R.ob].vmCount = @ + 1], ob |-> R.ob]
             ELSE R

\* new Observer(value)
Observer(X, o) ==
    LET d == X.depUid + 1
        X1 == [X EXCEPT !.depUid = d, !.heap[o].ob = d, !.heap[o].vmCount = 0]
    IN  IF X.heap[o].kind = "array"
        THEN observeArray([X1 EXCEPT !.heap[o].patched = TRUE], X.heap[o].elems, 1)
        ELSE walk(X1, o, KeysSeq(X.heap[o].keys), 1)

\* Observer.walk: the loop over Object.keys(obj), from keys[i] on
walk(X, o, keys, i) ==
    IF i > Len(keys) THEN X
    ELSE walk(defineReactive(X, o, keys[i], TRUE, Undef, FALSE), o, keys, i + 1)

\* Observer.observeArray: the loop over items, from items[i] on
observeArray(X, items, i) ==
    IF i > Len(items) THEN X
    ELSE observeArray(observe(X, items[i], FALSE).X, items, i + 1)

\* defineReactive(obj, key, val, customSetter, shallow); twoArgs says that
\* val was not passed (arguments.length === 2).
defineReactive(X, o, k, twoArgs, val0, shallow) ==
    LET d == X.depUid + 1
        val == IF twoArgs THEN X.heap[o].val[k] ELSE val0
        R == IF shallow
             THEN [X |-> [X EXCEPT !.depUid = d], ob |-> 0]
             ELSE observe([X EXCEPT !.depUid = d], val, FALSE)
    IN  [R.X EXCEPT !.heap[o].keys = @ \cup {k},
                    !.heap[o].val[k] = val,
                    !.heap[o].dep[k] = d,
                    !.heap[o].childOb[k] = R.ob]

\* A faulty dependArray, to try the properties on: it goes one level into
\* the arrays among the elements and no further.
RECURSIVE dependArray_OneLevel(_, _, _)
dependArray_OneLevel(X, items, i) ==
    IF i > Len(items) THEN <<>>
    ELSE LET e == items[i]
             own == IF isObject(e) /\ X.heap[e.v].ob # 0
                    THEN <<X.heap[e.v].ob>>
                    ELSE <<>>
             es == IF isObject(e) /\ X.heap[e.v].kind = "array"
                   THEN X.heap[e.v].elems
                   ELSE <<>>
             obs == [j \in DOMAIN es |->
                        IF isObject(es[j]) THEN X.heap[es[j].v].ob ELSE 0]
             sub == SelectSeq(obs, LAMBDA d : d # 0)
         IN  own \o sub \o dependArray_OneLevel(X, items, i + 1)

\* dependArray(value): the Deps depend() is called on, in order
RECURSIVE dependArray(_, _, _)
dependArray(X, items, i) ==
    IF i > Len(items) THEN <<>>
    ELSE LET e == items[i]
             own == IF isObject(e) /\ X.heap[e.v].ob # 0
                    THEN <<X.heap[e.v].ob>>
                    ELSE <<>>
             sub == IF isObject(e) /\ X.heap[e.v].kind = "array"
                    THEN dependArray(X, X.heap[e.v].elems, 1)
                    ELSE <<>>
         IN  own \o sub \o dependArray(X, items, i + 1)

\* reactiveGetter of property k of o: the value it returns
getterValue(X, o, k) == X.heap[o].val[k]

\* reactiveGetter of property k of o: the Deps it calls depend() on when
\* Dep.target is set, in order
getterDeps(X, o, k) ==
    LET O == X.heap[o]
        v == O.val[k]
    IN  <<O.dep[k]>>
        \o (IF O.childOb[k] # 0
            THEN <<X.heap[O.childOb[k]].ob>>
                 \o (IF isObject(v) /\ X.heap[v.v].kind = "array"
                     THEN dependArray(X, X.heap[v.v].elems, 1)
                     ELSE <<>>)
            ELSE <<>>)

\* A faulty reactiveSetter, to try the properties on: NaN is not taken as
\* equal to NaN.
reactiveSetter_NoNaN(X, o, k, newVal) ==
    LET cur == X.heap[o].val[k]
    IN  IF StrictEq(newVal, cur)
        THEN [X |-> X, ntf |-> <<>>]
        ELSE LET R == observe([X EXCEPT !.heap[o].val[k] = newVal], newVal, FALSE)
             IN  [X |-> [R.X EXCEPT !.heap[o].childOb[k] = R.ob],
                  ntf |-> <<X.heap[o].dep[k]>>]

\* reactiveSetter of property k of o: ntf are the Deps notify() is called on
reactiveSetter(X, o, k, newVal) ==
    LET cur == X.heap[o].val[k]
    IN  IF StrictEq(newVal, cur) \/ (newVal.t = "nan" /\ cur.t = "nan")
        THEN [X |-> X, ntf |-> <<>>]
        ELSE LET R == observe([X EXCEPT !.heap[o].val[k] = newVal], newVal, FALSE)
             IN  [X |-> [R.X EXCEPT !.heap[o].childOb[k] = R.ob],
                  ntf |-> <<X.heap[o].dep[k]>>]

\* obj[k] = v on an object that is not an array: the accessor's setter, or
\* a store into the data property (a new one only if obj is extensible)
Assign(X, o, k, v) ==
    LET O == X.heap[o]
    IN  IF O.dep[k] # 0 THEN reactiveSetter(X, o, k, v)
        ELSE IF k \in O.keys \/ O.ext
        THEN [X |-> [X EXCEPT !.heap[o].keys = @ \cup {k}, !.heap[o].val[k] = v],
              ntf |-> <<>>]
        ELSE [X |-> X, ntf |-> <<>>]

\* arr.length = n for n above the length: the new slots are empty
RECURSIVE Pad(_, _)
Pad(items, n) == IF Len(items) >= n THEN items ELSE Pad(Append(items, Undef), n)

\* arr[i] = v (i counts from 0): no accessor is involved
IndexAssign(X, o, i, v) ==
    [X EXCEPT !.heap[o].elems = [Pad(@, i + 1) EXCEPT ![i + 1] = v]]

\* The place of a value in the order of Array.prototype.sort() without a
\* comparator (by string; undefined last), for one-digit numbers.
SortRank(v) ==
    CASE v.t = "num" -> v.v
      [] v.t = "nan" -> 10
      [] v.t = "ref" -> 11
      [] v.t = "bool" -> 12 + v.v
      [] OTHER -> 14

RECURSIVE SortByRank(_)
SortByRank(items) ==
    IF items = <<>> THEN <<>>
    ELSE LET r == SortByRank(SubSeq(items, 1, Len(items) - 1))
             x == items[Len(items)]
             n == Cardinality({i \in DOMAIN r : SortRank(r[i]) <= SortRank(x)})
         IN  SubSeq(r, 1, n) \o <<x>> \o SubSeq(r, n + 1, Len(r))

RECURSIVE Reverse(_)
Reverse(items) ==
    IF items = <<>> THEN <<>>
    ELSE Append(Reverse(SubSeq(items, 2, Len(items))), items[1])

Min(a, b) == IF a < b THEN a ELSE b
Max(a, b) == IF a > b THEN a ELSE b

\* Array.prototype[method].apply(arr, args) on the elements; args is
\* [start, dc, items] (start and dc for splice, items for push, unshift, splice)
original(method, items, args) ==
    CASE method = "push" -> items \o args.items
      [] method = "pop" -> SubSeq(items, 1, Len(items) - 1)
      [] method = "shift" -> SubSeq(items, 2, Len(items))
      [] method = "unshift" -> args.items \o items
      [] method = "splice" ->
           LET st == IF args.start < 0
                     THEN Max(Len(items) + args.start, 0)
                     ELSE Min(args.start, Len(items))
               dc == Max(0, Min(args.dc, Len(items) - st))
           IN  SubSeq(items, 1, st) \o args.items
                   \o SubSeq(items, st + dc + 1, Len(items))
      [] method = "sort" -> SortByRank(items)
      [] OTHER -> Reverse(items)

methodsToPatch == {"push", "pop", "shift", "unshift", "splice", "sort", "reverse"}

\* A faulty mutator, to try the properties on: what is inserted is not
\* observed.
mutator_NoObserve(X, method, o, args) ==
    [X |-> [X EXCEPT !.heap[o].elems = original(method, @, args)],
     ntf |-> <<X.heap[o].ob>>]

\* array.js: mutator(...args) of method, called on the observed array o
mutator(X, method, o, args) ==
    LET X1 == [X EXCEPT !.heap[o].elems = original(method, @, args)]
        inserted == method \in {"push", "unshift", "splice"}
        X2 == IF inserted THEN observeArray(X1, args.items, 1) ELSE X1
    IN  [X |-> X2, ntf |-> <<X.heap[o].ob>>]

\* arr[method](...args): the mutator when the prototype of arr is
\* arrayMethods, Array.prototype[method] otherwise
ArrayCall(X, method, o, args) ==
    IF X.heap[o].patched
    THEN mutator(X, method, o, args)
    ELSE [X |-> [X EXCEPT !.heap[o].elems = original(method, @, args)], ntf |-> <<>>]

\* A faulty set, to try the properties on: a new key is added by a plain
\* assignment, without notify().
set_NoNotify(X, o, key, val) ==
    LET O == X.heap[o]
    IN  IF O.kind = "array"
        THEN ArrayCall([X EXCEPT !.heap[o].elems = Pad(@, key)], "splice", o,
                       [start |-> key, dc |-> 1, items |-> <<val>>])
        ELSE IF key \in O.keys THEN Assign(X, o, key, val)
        ELSE IF O.vue \/ (O.ob # 0 /\ O.vmCount > 0) THEN [X |-> X, ntf |-> <<>>]
        ELSE Assign(X, o, key, val)

\* A faulty set, to try the properties on: a Vue instance and root data are
\* treated as any other object.
set_NoRootCheck(X, o, key, val) ==
    LET O == X.heap[o]
        R == IF O.kind = "array"
             THEN ArrayCall([X EXCEPT !.heap[o].elems = Pad(@, key)], "splice", o,
                            [start |-> key, dc |-> 1, items |-> <<val>>])
             ELSE IF key \in O.keys THEN Assign(X, o, key, val)
             ELSE IF O.ob = 0 THEN Assign(X, o, key, val)
             ELSE [X |-> defineReactive(X, o, key, FALSE, val, FALSE), ntf |-> <<O.ob>>]
    IN  [X |-> R.X, ntf |-> R.ntf, ret |-> val]

\* set(target, key, val); key is an index counted from 0 for an array.
\* Every branch ends with return val.
set(X, o, key, val) ==
    LET O == X.heap[o]
        R == IF O.kind = "array"
             THEN ArrayCall([X EXCEPT !.heap[o].elems = Pad(@, key)], "splice", o,
                            [start |-> key, dc |-> 1, items |-> <<val>>])
             ELSE IF key \in O.keys THEN Assign(X, o, key, val)
             ELSE IF O.vue \/ (O.ob # 0 /\ O.vmCount > 0) THEN [X |-> X, ntf |-> <<>>]
             ELSE IF O.ob = 0 THEN Assign(X, o, key, val)
             ELSE [X |-> defineReactive(X, o, key, FALSE, val, FALSE), ntf |-> <<O.ob>>]
    IN  [X |-> R.X, ntf |-> R.ntf, ret |-> val]

\* delete obj[k]: the properties defineReactive defines are configurable
deleteKey(X, o, key) ==
    [X EXCEPT !.heap[o].keys = @ \ {key},
              !.heap[o].val[key] = Undef,
              !.heap[o].dep[key] = 0,
              !.heap[o].childOb[key] = 0]

\* A faulty del, to try the properties on: the key is deleted by a plain
\* delete, without notify().
del_NoNotify(X, o, key) ==
    LET O == X.heap[o]
    IN  IF O.kind = "array"
        THEN ArrayCall(X, "splice", o, [start |-> key, dc |-> 1, items |-> <<>>])
        ELSE IF O.vue \/ (O.ob # 0 /\ O.vmCount > 0) THEN [X |-> X, ntf |-> <<>>]
        ELSE IF key \notin O.keys THEN [X |-> X, ntf |-> <<>>]
        ELSE [X |-> deleteKey(X, o, key), ntf |-> <<>>]

\* del(target, key); key is an index counted from 0 for an array
del(X, o, key) ==
    LET O == X.heap[o]
    IN  IF O.kind = "array"
        THEN ArrayCall(X, "splice", o, [start |-> key, dc |-> 1, items |-> <<>>])
        ELSE IF O.vue \/ (O.ob # 0 /\ O.vmCount > 0) THEN [X |-> X, ntf |-> <<>>]
        ELSE IF key \notin O.keys THEN [X |-> X, ntf |-> <<>>]
        ELSE IF O.ob = 0 THEN [X |-> deleteKey(X, o, key), ntf |-> <<>>]
        ELSE [X |-> deleteKey(X, o, key), ntf |-> <<O.ob>>]

\* ------------------------------------------------------------ scheduler

\* A faulty resetSchedulerState, to try the properties on: waiting is not
\* reset.
resetSchedulerState_KeepWaiting ==
    /\ index' = 0
    /\ queue' = <<>>
    /\ has' = {}
    /\ circular' = [w \in Watchers |-> 0]
    /\ waiting' = waiting
    /\ flushing' = FALSE

resetSchedulerState ==
    /\ index' = 0
    /\ queue' = <<>>
    /\ has' = {}
    /\ circular' = [w \in Watchers |-> 0]
    /\ waiting' = FALSE
    /\ flushing' = FALSE

\* A faulty while loop, to try the properties on: the watcher always goes to
\* the end of the queue.
splicePos_End(q, idx, id, i) == i

\* The while loop of queueWatcher: i is the 0-based position it stops at.
RECURSIVE splicePos(_, _, _, _)
splicePos(q, idx, id, i) ==
    IF i > idx /\ q[i + 1] > id THEN splicePos(q, idx, id, i - 1) ELSE i

\* queue.splice(i + 1, 0, watcher)
spliceIn(q, i, w) == SubSeq(q, 1, i + 1) \o <<w>> \o SubSeq(q, i + 2, Len(q))

\* A faulty queueWatcher, to try the properties on: has is not looked at.
queueWatcher_NoHas(w) ==
    /\ has' = has \cup {w}
    /\ queue' = IF ~flushing
                THEN Append(queue, w)
                ELSE spliceIn(queue, splicePos(queue, index, w, Len(queue) - 1), w)
    /\ IF ~waiting
       THEN waiting' = TRUE /\ ticks' = ticks + 1
       ELSE UNCHANGED <<waiting, ticks>>
    /\ UNCHANGED <<circular, flushing, index>>

\* A faulty queueWatcher, to try the properties on: waiting is not looked
\* at.
queueWatcher_NoWaiting(w) ==
    IF w \notin has
    THEN /\ has' = has \cup {w}
         /\ queue' = IF ~flushing
                     THEN Append(queue, w)
                     ELSE spliceIn(queue, splicePos(queue, index, w, Len(queue) - 1), w)
         /\ waiting' = TRUE
         /\ ticks' = ticks + 1
         /\ UNCHANGED <<circular, flushing, index>>
    ELSE UNCHANGED schedVars

queueWatcher(w) ==
    IF w \notin has
    THEN /\ has' = has \cup {w}
         /\ queue' = IF ~flushing
                     THEN Append(queue, w)
                     ELSE spliceIn(queue, splicePos(queue, index, w, Len(queue) - 1), w)
         /\ IF ~waiting
            THEN waiting' = TRUE /\ ticks' = ticks + 1
            ELSE UNCHANGED <<waiting, ticks>>
         /\ UNCHANGED <<circular, flushing, index>>
    ELSE UNCHANGED schedVars

\* --------------------------------------------------------------- actions

NoRuns == [w \in Watchers |-> 0]

Blank ==
    [lazy |-> FALSE, sync |-> FALSE, user |-> FALSE, active |-> FALSE,
     dirty |-> FALSE, deps |-> <<>>, newDeps |-> <<>>, depIds |-> {},
     newDepIds |-> {}, getter |-> FreeFn, cb |-> FreeFn]

\* The arguments of an array method: start and dc (deleteCount) of splice,
\* items of push, unshift and splice.
Args(start, dc, items) == [start |-> start, dc |-> dc, items |-> items]
NoArgs == Args(0, 0, <<>>)

\* History: the n-th operation of the host program was name on object o with
\* key or index k, value v and arguments args; it returned the Observer ob,
\* called notify() on the Deps ntf, and at events had been recorded before it.
NoHostOp ==
    [n |-> 0, name |-> "", o |-> 0, k |-> 0, v |-> Undef, args |-> NoArgs,
     ob |-> 0, ntf |-> <<>>, at |-> 0, ret |-> Undef]

\* The component vm of a watcher: render is vm._watcher === watcher.
NoComp == [render |-> FALSE, mounted |-> FALSE, destroyed |-> FALSE, inactive |-> FALSE]

\* The configuration Vue starts with, no deep watcher, no traversal, no
\* event listener, no watcher with a before hook and no component.
NoExt ==
    /\ async = TRUE
    /\ deep = {}
    /\ seenObjects = {}
    /\ trav = <<>>
    /\ evArrays = <<>>
    /\ evCurrent = 0
    /\ onceUid = 0
    /\ emitStack = <<>>
    /\ invoked = [r \in 1..MaxOnce |-> 0]
    /\ emits = 0
    /\ before = {}
    /\ comp = [w \in Watchers |-> NoComp]
    /\ activatedChildren = <<>>
    /\ activatedQueue = <<>>
    /\ updatedQueue = <<>>
    /\ fromHook = {}

\* No heap: the state of the observer in the specifications whose user code
\* reads and writes Deps directly.
NoHeap ==
    /\ heap = [o \in Objs |-> NewObj("plain", TRUE, FALSE, {}, NoVals, <<>>)]
    /\ shouldObserve = TRUE
    /\ serverRendering = FALSE
    /\ NoExt
    /\ depUid = 0
    /\ value = [w \in Watchers |-> Undef]
    /\ expr = [w \in Watchers |-> NoExpr]
    /\ trace = <<>>
    /\ hostOp = NoHostOp

\* No watcher has been constructed and the scheduler is idle.
NoWatchers ==
    /\ uid = 0
    /\ watchers = [w \in Watchers |-> Blank]
    /\ targetStack = <<>>
    /\ target = 0
    /\ queue = <<>>
    /\ has = {}
    /\ circular = [w \in Watchers |-> 0]
    /\ waiting = FALSE
    /\ flushing = FALSE
    /\ index = 0
    /\ ticks = 0
    /\ stack = <<>>
    /\ exc = FALSE
    /\ flushRuns = NoRuns
    /\ updates = NoRuns
    /\ aborted = FALSE

Init ==
    /\ NoHeap
    /\ NoWatchers
    /\ subs = [d \in Deps |-> <<>>]

\* new Watcher(vm, expOrFn, cb, options): at most cap watchers are constructed.
CreateWatcher(l, s, u, g, c, cap) ==
    /\ ~exc /\ AtTop
    /\ uid < cap
    /\ uid' = uid + 1
    /\ watchers' = [watchers EXCEPT ![uid + 1] = NewWatcher(l, s, u, g, c)]
    /\ IF l
       THEN UNCHANGED <<stack, targetStack, target>>
       ELSE LET T == pushTarget([stack |-> targetStack, target |-> target], uid + 1)
            IN  /\ stack' = PushGet(stack, uid + 1, "ctor")
                /\ targetStack' = T.stack
                /\ target' = T.target
    /\ UNCHANGED <<subs, schedVars, exc, histVars>>
    /\ UNCHANGED obsVars

\* User code reads reactive property d: reactiveGetter calls dep.depend().
UserRead(d) ==
    /\ MayDo(OpRead(d))
    /\ InUser
    /\ LET H == depend([ws |-> watchers, subs |-> subs], d, target)
       IN  /\ watchers' = H.ws
           /\ subs' = H.subs
    /\ stack' = Did(Touch(stack, target, {d}))
    /\ UNCHANGED <<uid, tgtVars, schedVars, exc, histVars>>
    /\ UNCHANGED obsVars

\* User code writes reactive property d: reactiveSetter calls dep.notify(),
\* which snapshots subs.
UserWrite(d) ==
    /\ MayDo(OpWrite(d))
    /\ Len(stack) < DepthCap
    /\ stack' = IF subs[d] = <<>>
                THEN Did(stack)
                ELSE Append(Did(stack), NotifyFrame(notifySubs(subs[d])))
    /\ UNCHANGED <<depVars, tgtVars, schedVars, exc, histVars>>
    /\ UNCHANGED obsVars

\* User code calls w.teardown() (the unwatch function of $watch).
UserTeardown(w) ==
    /\ MayDo(OpTeardown(w))
    /\ w <= uid
    /\ LET H == teardown([ws |-> watchers, subs |-> subs], w)
       IN  /\ watchers' = H.ws
           /\ subs' = H.subs
    /\ stack' = Did(stack)
    /\ UNCHANGED <<uid, tgtVars, schedVars, exc, histVars>>
    /\ UNCHANGED obsVars

\* User code reads the computed property backed by lazy watcher w.
computedGetter(w) ==
    /\ MayDo(OpComputed(w))
    /\ w <= uid
    /\ watchers[w].lazy
    /\ IF watchers[w].dirty
       THEN LET T == pushTarget([stack |-> targetStack, target |-> target], w)
            IN  /\ Len(stack) < MaxDepth
                /\ stack' = PushGet(Did(stack), w, "evaluate")
                /\ targetStack' = T.stack
                /\ target' = T.target
                /\ UNCHANGED <<watchers, subs>>
       ELSE LET H == IF target # 0
                     THEN watcherDepend([ws |-> watchers, subs |-> subs], w, target)
                     ELSE [ws |-> watchers, subs |-> subs]
            IN  /\ watchers' = H.ws
                /\ subs' = H.subs
                /\ stack' = Did(Touch(stack, target, SeqToSet(watchers[w].deps)))
                /\ UNCHANGED <<targetStack, target>>
    /\ UNCHANGED <<uid, schedVars, exc, histVars>>
    /\ UNCHANGED obsVars

\* User code throws.
UserThrow ==
    /\ MayDo(OpThrow)
    /\ InUser
    /\ exc' = TRUE
    /\ UNCHANGED <<depVars, tgtVars, schedVars, stack, histVars>>
    /\ UNCHANGED obsVars

\* The finally block of get() of the frame on top, and what its caller does
\* with the value: the constructor stores it, run() calls the callback when
\* fire (the value changed, is an object, or the watcher is deep),
\* evaluate() clears dirty and computedGetter then calls watcher.depend().
GetEnd(fire) ==
    LET f == Top
        w == f.w
        T == popTarget([stack |-> targetStack, target |-> target])
        H1 == cleanupDeps([ws |-> watchers, subs |-> subs], w)
        H2 == [H1 EXCEPT !.ws[w].dirty = FALSE]
        H3 == IF T.target # 0 THEN watcherDepend(H2, w, T.target) ELSE H2
    IN  /\ targetStack' = T.stack
        /\ target' = T.target
        /\ IF f.from = "evaluate"
           THEN /\ watchers' = H3.ws
                /\ subs' = H3.subs
                /\ stack' = Touch(Rest, T.target, SeqToSet(H2.ws[w].deps))
           ELSE /\ watchers' = H1.ws
                /\ subs' = H1.subs
                /\ stack' = IF f.from = "run" /\ fire
                            THEN Append(Rest, CbFrame(w))
                            ELSE Rest

\* The getter returns.
GetterReturn(fire) ==
    /\ MayReturn
    /\ Top.k = "get"
    /\ GetEnd(fire)
    /\ UNCHANGED <<uid, schedVars, exc, histVars>>
    /\ UNCHANGED obsVars

\* The callback returns.
CbReturn ==
    /\ MayReturn
    /\ Top.k = "cb"
    /\ stack' = Rest
    /\ UNCHANGED <<depVars, tgtVars, schedVars, exc, histVars>>
    /\ UNCHANGED obsVars

\* A faulty run(), to try the properties on: no try around the callback.
Unwind_NoCatch(fire) ==
    /\ exc
    /\ IF stack = <<>>
       THEN /\ exc' = FALSE
            /\ UNCHANGED <<depVars, tgtVars, stack>>
       ELSE IF Top.k = "get"
       THEN IF watchers[Top.w].user
            THEN GetEnd(fire) /\ exc' = FALSE /\ UNCHANGED uid
            ELSE LET T == popTarget([stack |-> targetStack, target |-> target])
                     H == cleanupDeps([ws |-> watchers, subs |-> subs], Top.w)
                 IN  /\ targetStack' = T.stack
                     /\ target' = T.target
                     /\ watchers' = H.ws
                     /\ subs' = H.subs
                     /\ stack' = Rest
                     /\ UNCHANGED <<uid, exc>>
       ELSE /\ stack' = Rest
            /\ exc' = TRUE
            /\ UNCHANGED <<depVars, tgtVars>>
    /\ UNCHANGED <<schedVars, histVars>>
    /\ UNCHANGED obsVars

\* An exception leaves the frame on top.  get() runs its finally block and,
\* for a user watcher, hands the error to handleError and goes on; run()
\* catches what the callback of a user watcher throws; nothing else catches.
Unwind(fire) ==
    /\ exc
    /\ IF stack = <<>>
       THEN /\ exc' = FALSE
            /\ UNCHANGED <<depVars, tgtVars, stack>>
       ELSE IF Top.k = "get"
       THEN IF watchers[Top.w].user
            THEN GetEnd(fire) /\ exc' = FALSE /\ UNCHANGED uid
            ELSE LET T == popTarget([stack |-> targetStack, target |-> target])
                     H == cleanupDeps([ws |-> watchers, subs |-> subs], Top.w)
                 IN  /\ targetStack' = T.stack
                     /\ target' = T.target
                     /\ watchers' = H.ws
                     /\ subs' = H.subs
                     /\ stack' = Rest
                     /\ UNCHANGED <<uid, exc>>
       ELSE /\ stack' = Rest
            /\ exc' = ~(Top.k = "cb" /\ watchers[Top.w].user)
            /\ UNCHANGED <<depVars, tgtVars>>
    /\ UNCHANGED <<schedVars, histVars>>
    /\ UNCHANGED obsVars

\* A faulty update(), to try the properties on: lazy is not looked at.
NotifyStep_NoLazy(maxU) ==
    /\ ~exc
    /\ stack # <<>>
    /\ Top.k = "notify"
    /\ Top.i <= Len(Top.subs)
    /\ LET w == Top.subs[Top.i]
           st == [stack EXCEPT ![Len(stack)].i = @ + 1]
       IN  IF watchers[w].sync
           THEN IF run_active(w)
                THEN LET T == pushTarget([stack |-> targetStack, target |-> target], w)
                     IN  /\ Len(stack) < MaxDepth
                         /\ stack' = PushGet(st, w, "run")
                         /\ targetStack' = T.stack
                         /\ target' = T.target
                         /\ UNCHANGED <<depVars, schedVars, updates>>
                ELSE /\ stack' = st
                     /\ UNCHANGED <<depVars, tgtVars, schedVars, updates>>
           ELSE /\ queueWatcher(w)
                /\ stack' = st
                /\ updates' = IF ~flushing /\ updates[w] < maxU
                              THEN [updates EXCEPT ![w] = @ + 1]
                              ELSE updates
                /\ UNCHANGED <<depVars, tgtVars>>
    /\ UNCHANGED <<exc, flushRuns, aborted>>
    /\ UNCHANGED obsVars

\* Watcher.update, called by the loop of Dep.notify on subs[i].  maxU: the
\* number of deferred update() calls between two flushes that updates counts.
NotifyStep(maxU) ==
    /\ ~exc
    /\ stack # <<>>
    /\ Top.k = "notify"
    /\ Top.i <= Len(Top.subs)
    /\ LET w == Top.subs[Top.i]
           st == [stack EXCEPT ![Len(stack)].i = @ + 1]
       IN  IF watchers[w].lazy
           THEN /\ watchers' = [watchers EXCEPT ![w].dirty = TRUE]
                /\ stack' = st
                /\ UNCHANGED <<uid, subs, tgtVars, schedVars, updates, flushRuns, fromHook>>
           ELSE IF watchers[w].sync
           THEN IF run_active(w)
                THEN LET T == pushTarget([stack |-> targetStack, target |-> target], w)
                     IN  /\ Len(stack) < MaxDepth
                         /\ stack' = PushGet(st, w, "run")
                         /\ targetStack' = T.stack
                         /\ target' = T.target
                         /\ UNCHANGED <<depVars, schedVars, updates, flushRuns, fromHook>>
                ELSE /\ stack' = st
                     /\ UNCHANGED <<depVars, tgtVars, schedVars, updates, flushRuns,
                                     fromHook>>
           ELSE IF ~async /\ w \notin has /\ ~waiting
           THEN \* queueWatcher calls flushSchedulerQueue() itself
                LET q == IF ~flushing
                         THEN Append(queue, w)
                         ELSE spliceIn(queue, splicePos(queue, index, w, Len(queue) - 1), w)
                IN  /\ has' = has \cup {w}
                    /\ waiting' = TRUE
                    /\ flushing' = TRUE
                    /\ queue' = SortById(q)
                    /\ index' = 0
                    /\ stack' = Append(st, FlushFrame(SeqToSet(q)))
                    /\ flushRuns' = NoRuns
                    /\ updates' = NoRuns
                    /\ fromHook' = IF InHook(stack) THEN fromHook \cup {w} ELSE fromHook
                    /\ UNCHANGED <<depVars, tgtVars, circular, ticks>>
           ELSE /\ queueWatcher(w)
                /\ stack' = st
                /\ updates' = IF ~flushing /\ updates[w] < maxU
                              THEN [updates EXCEPT ![w] = @ + 1]
                              ELSE updates
                /\ fromHook' = IF w \notin has /\ InHook(stack)
                               THEN fromHook \cup {w}
                               ELSE fromHook
                /\ UNCHANGED <<depVars, tgtVars, flushRuns>>
    /\ UNCHANGED <<exc, aborted>>
    /\ UNCHANGED obsVarsH

\* The loop of Dep.notify ends.
NotifyDone ==
    /\ ~exc
    /\ stack # <<>>
    /\ Top.k = "notify"
    /\ Top.i > Len(Top.subs)
    /\ stack' = Rest
    /\ UNCHANGED <<depVars, tgtVars, schedVars, exc, histVars>>
    /\ UNCHANGED obsVars

\* A faulty flush, to try the properties on: it starts whenever the queue is
\* not empty, without a callback handed to nextTick.
FlushBegin_Unasked ==
    /\ ~exc /\ AtTop
    /\ queue # <<>> /\ ~flushing
    /\ ticks' = ticks
    /\ flushing' = TRUE
    /\ queue' = SortById(queue)
    /\ index' = 0
    /\ stack' = <<FlushFrame(SeqToSet(queue))>>
    /\ flushRuns' = NoRuns
    /\ updates' = NoRuns
    /\ UNCHANGED <<depVars, tgtVars, has, circular, waiting, exc, aborted>>
    /\ UNCHANGED obsVars

\* The host executes the callback handed to nextTick: flushSchedulerQueue
\* up to the head of its loop.
FlushBegin ==
    /\ ~exc /\ AtTop
    /\ ticks > 0
    /\ ticks' = ticks - 1
    /\ flushing' = TRUE
    /\ queue' = SortById(queue)
    /\ index' = 0
    /\ stack' = <<FlushFrame(SeqToSet(queue))>>
    /\ flushRuns' = NoRuns
    /\ updates' = NoRuns
    /\ UNCHANGED <<depVars, tgtVars, has, circular, waiting, exc, aborted>>
    /\ UNCHANGED obsVars

\* One iteration of the loop up to and including the call of watcher.run():
\* run() returns at once for an inactive watcher and calls get() otherwise.
FlushStep(cap) ==
    /\ ~exc
    /\ stack # <<>>
    /\ Top.k = "flush"
    /\ Top.pc \in {"loop", "pre"}
    /\ index < Len(queue)
    /\ index < cap
    /\ LET w == queue[index + 1]
           st == [stack EXCEPT ![Len(stack)].pc = "ran"]
       IN  /\ Top.pc = "loop" => w \notin before
           /\ has' = has \ {w}
           /\ flushRuns' = [flushRuns EXCEPT ![w] = @ + 1]
           /\ fromHook' = fromHook \ {w}
           /\ IF run_active(w)
              THEN LET T == pushTarget([stack |-> targetStack, target |-> target], w)
                   IN  /\ stack' = PushGet(st, w, "run")
                       /\ targetStack' = T.stack
                       /\ target' = T.target
              ELSE /\ stack' = st
                   /\ UNCHANGED <<targetStack, target>>
    /\ UNCHANGED <<depVars, queue, circular, waiting, flushing, index, ticks, exc,
                    updates, aborted>>
    /\ UNCHANGED obsVarsH

\* The rest of the iteration: the check for circular updates and index++.
FlushAfterRun ==
    /\ ~exc
    /\ stack # <<>>
    /\ Top.k = "flush"
    /\ Top.pc = "ran"
    /\ LET w == queue[index + 1]
       IN  IF w \in has
           THEN /\ circular' = [circular EXCEPT ![w] = @ + 1]
                /\ IF circular[w] + 1 > MAX_UPDATE_COUNT
                   THEN /\ stack' = [stack EXCEPT ![Len(stack)].pc = "break"]
                        /\ UNCHANGED index
                   ELSE /\ stack' = [stack EXCEPT ![Len(stack)].pc = "loop"]
                        /\ index' = index + 1
           ELSE /\ stack' = [stack EXCEPT ![Len(stack)].pc = "loop"]
                /\ index' = index + 1
                /\ UNCHANGED circular
    /\ UNCHANGED <<depVars, tgtVars, queue, has, waiting, flushing, ticks, exc, histVars>>
    /\ UNCHANGED obsVars

\* After the loop: resetSchedulerState() and return.
FlushEnd ==
    /\ ~exc
    /\ stack # <<>>
    /\ Top.k = "flush"
    /\ Top.pc = "break" \/ (Top.pc = "loop" /\ index >= Len(queue))
    /\ resetSchedulerState
    /\ stack' = Rest
    /\ flushRuns' = NoRuns
    /\ aborted' = (aborted \/ Top.pc = "break")
    /\ UNCHANGED <<depVars, tgtVars, ticks, exc, updates>>
    /\ UNCHANGED obsVars

\* The host program sets config.async (Vue.config.async = b) while nothing
\* runs.
SetAsync(b) ==
    /\ ~exc /\ AtTop
    /\ async # b
    /\ async' = b
    /\ UNCHANGED <<vars, heap, shouldObserve, serverRendering, depUid, value, expr,
                    trace, hostOp, deepVars, evVars, hookVars>>

\* getData(data, vm) up to the call of data: pushTarget() with no argument.
\* It is called by initData when a component is created, by the host program
\* or by user code that is running.
GetDataBegin ==
    /\ MayDo(OpData)
    /\ Len(stack) < MaxDepth
    /\ LET T == pushTarget([stack |-> targetStack, target |-> target], 0)
       IN  /\ targetStack' = T.stack
           /\ target' = T.target
    /\ stack' = Append(Did(stack), DataFrame)
    /\ UNCHANGED <<depVars, schedVars, exc, histVars>>
    /\ UNCHANGED obsVars

\* data returns, or throws and getData catches (handleError, return {}):
\* the finally block, popTarget().
GetDataEnd ==
    /\ stack # <<>>
    /\ Top.k = "data"
    /\ exc \/ MayReturn
    /\ LET T == popTarget([stack |-> targetStack, target |-> target])
       IN  /\ targetStack' = T.stack
           /\ target' = T.target
    /\ stack' = Rest
    /\ exc' = FALSE
    /\ UNCHANGED <<depVars, schedVars, histVars>>
    /\ UNCHANGED obsVars

\* ------------------------------------------------- actions on the heap

St == [heap |-> heap, depUid |-> depUid, so |-> shouldObserve, ssr |-> serverRendering]

\* The Deps a read of property k of o calls depend() on (none when k is a
\* data property).
readDeps(X, o, k) == IF X.heap[o].dep[k] = 0 THEN <<>> ELSE getterDeps(X, o, k)

RECURSIVE dependAll(_, _, _, _)
dependAll(H, ds, tgt, i) ==
    IF i > Len(ds) THEN H ELSE dependAll(depend(H, ds[i], tgt), ds, tgt, i + 1)

\* History: the events of the watchers, in order.
GetEv(w, v) == [ev |-> "get", w |-> w, new |-> v, old |-> Undef]
CbEv(w, v, old) == [ev |-> "cb", w |-> w, new |-> v, old |-> old]

\* new Watcher(vm, getter, cb, {lazy}) with the getter of expression e and a
\* callback that records its arguments.
Watch(e, l, cap) ==
    /\ ~exc /\ AtTop
    /\ uid < cap
    /\ uid' = uid + 1
    /\ watchers' = [watchers EXCEPT ![uid + 1] =
                        NewWatcher(l, FALSE, TRUE, Script(<<>>), Script(<<>>))]
    /\ expr' = [expr EXCEPT ![uid + 1] = e]
    /\ IF l
       THEN UNCHANGED <<stack, targetStack, target>>
       ELSE LET T == pushTarget([stack |-> targetStack, target |-> target], uid + 1)
            IN  /\ stack' = PushGet(stack, uid + 1, "ctor")
                /\ targetStack' = T.stack
                /\ target' = T.target
    /\ UNCHANGED <<subs, schedVars, exc, histVars>>
    /\ UNCHANGED <<heap, shouldObserve, serverRendering, depUid, value, trace, hostOp>>
    /\ UNCHANGED extVars

\* The getter reads property p: reactiveGetter when p is reactive.
PropRead(p) ==
    /\ MayDo(OpRead(p))
    /\ InUser
    /\ LET ds == readDeps(St, ObjOf(p), KeyOf(p))
           H == dependAll([ws |-> watchers, subs |-> subs], ds, target, 1)
       IN  /\ watchers' = H.ws
           /\ subs' = H.subs
           /\ stack' = Did(Touch(stack, target, SeqToSet(ds)))
    /\ UNCHANGED <<uid, tgtVars, schedVars, exc, histVars>>
    /\ UNCHANGED obsVars

\* A faulty run(), to try the invariants on: the callback is called whatever
\* the value is.
run_fires_Always(v, old) == TRUE

\* Watcher.run: value !== this.value || isObject(value) || this.deep
\* (no watcher here is deep)
run_fires(v, old) == ~StrictEq(v, old) \/ isObject(v)

\* A faulty run(), to try the invariants on: it does not store the value.
stores_value_NotRun(from, fire) == from # "run"

\* this.value = value, of the constructor, of evaluate() and of run() (in
\* the branch that calls the callback)
stores_value(from, fire) == from # "run" \/ fire

\* The getter returns its value: the constructor and evaluate() store it,
\* run() stores it and calls the callback when run_fires.
GetterReturnVal ==
    /\ MayReturn
    /\ Top.k = "get"
    /\ LET w == Top.w
           v == Val(expr[w])
           fire == run_fires(v, value[w])
       IN  /\ GetEnd(fire)
           /\ value' = IF stores_value(Top.from, fire)
                       THEN [value EXCEPT ![w] = v]
                       ELSE value
           /\ trace' = IF Top.from = "run" /\ fire
                       THEN trace \o <<GetEv(w, v), CbEv(w, v, value[w])>>
                       ELSE Append(trace, GetEv(w, v))
    /\ UNCHANGED <<uid, schedVars, exc, histVars>>
    /\ UNCHANGED <<heap, shouldObserve, serverRendering, depUid, expr, hostOp>>
    /\ UNCHANGED extVars

\* new Watcher(vm, getter, noop, {lazy, user}) with the getter of expression
\* e: a watcher of the framework (render, computed) when user is false.
Construct(e, l, u, cap) ==
    /\ ~exc /\ AtTop
    /\ uid < cap
    /\ uid' = uid + 1
    /\ watchers' = [watchers EXCEPT ![uid + 1] =
                        NewWatcher(l, FALSE, u, Script(<<>>), Script(<<>>))]
    /\ expr' = [expr EXCEPT ![uid + 1] = e]
    /\ IF l
       THEN UNCHANGED <<stack, targetStack, target>>
       ELSE LET T == pushTarget([stack |-> targetStack, target |-> target], uid + 1)
            IN  /\ stack' = PushGet(stack, uid + 1, "ctor")
                /\ targetStack' = T.stack
                /\ target' = T.target
    /\ UNCHANGED <<subs, schedVars, exc, histVars>>
    /\ UNCHANGED <<heap, shouldObserve, serverRendering, depUid, value, trace, hostOp>>
    /\ UNCHANGED extVars

\* A faulty get(), to try the properties on: no finally block when the
\* exception is not caught.
UnwindVal_NoFinally ==
    /\ exc
    /\ IF stack # <<>> /\ Top.k = "get" /\ watchers[Top.w].user
       THEN LET w == Top.w
                fire == run_fires(Undef, value[w])
            IN  /\ GetEnd(fire)
                /\ exc' = FALSE
                /\ value' = IF stores_value(Top.from, fire)
                            THEN [value EXCEPT ![w] = Undef]
                            ELSE value
                /\ trace' = IF Top.from = "run" /\ fire
                            THEN trace \o <<GetEv(w, Undef), CbEv(w, Undef, value[w])>>
                            ELSE Append(trace, GetEv(w, Undef))
                /\ UNCHANGED uid
       ELSE /\ IF stack = <<>>
               THEN /\ exc' = FALSE
                    /\ UNCHANGED <<depVars, tgtVars, stack>>
               ELSE /\ stack' = Rest
                    /\ exc' = ~(Top.k = "cb" /\ watchers[Top.w].user)
                    /\ UNCHANGED <<depVars, tgtVars>>
            /\ UNCHANGED <<value, trace>>
    /\ UNCHANGED <<schedVars, histVars>>
    /\ UNCHANGED <<heap, shouldObserve, serverRendering, depUid, expr, hostOp>>
    /\ UNCHANGED extVars

\* An exception leaves the frame on top, as in Unwind, with the values: the
\* value of a get() that caught the error of its getter is undefined (let
\* value is never assigned), and run(), evaluate() and the constructor go on
\* with it.
UnwindVal ==
    /\ exc
    /\ IF stack # <<>> /\ Top.k = "get" /\ watchers[Top.w].user
       THEN LET w == Top.w
                fire == run_fires(Undef, value[w])
            IN  /\ GetEnd(fire)
                /\ exc' = FALSE
                /\ value' = IF stores_value(Top.from, fire)
                            THEN [value EXCEPT ![w] = Undef]
                            ELSE value
                /\ trace' = IF Top.from = "run" /\ fire
                            THEN trace \o <<GetEv(w, Undef), CbEv(w, Undef, value[w])>>
                            ELSE Append(trace, GetEv(w, Undef))
                /\ UNCHANGED uid
       ELSE /\ IF stack = <<>>
               THEN /\ exc' = FALSE
                    /\ UNCHANGED <<depVars, tgtVars, stack>>
               ELSE IF Top.k = "get"
               THEN LET T == popTarget([stack |-> targetStack, target |-> target])
                        H == cleanupDeps([ws |-> watchers, subs |-> subs], Top.w)
                    IN  /\ targetStack' = T.stack
                        /\ target' = T.target
                        /\ watchers' = H.ws
                        /\ subs' = H.subs
                        /\ stack' = Rest
                        /\ UNCHANGED <<uid, exc>>
               ELSE /\ stack' = Rest
                    /\ exc' = ~(Top.k = "cb" /\ watchers[Top.w].user)
                    /\ UNCHANGED <<depVars, tgtVars>>
            /\ UNCHANGED <<value, trace>>
    /\ UNCHANGED <<schedVars, histVars>>
    /\ UNCHANGED <<heap, shouldObserve, serverRendering, depUid, expr, hostOp>>
    /\ UNCHANGED extVars

\* An operation of the host program, at the top level: it leaves the heap
\* R.X, its last statement calls notify() on the Deps R.ntf, and it returns
\* R.ret when the model keeps what it returns.
HostDo(cap, name, o, k, v, args, R, ob) ==
    /\ ~exc /\ AtTop
    /\ hostOp.n < cap
    /\ R.X.depUid <= NumObsDeps
    /\ heap' = R.X.heap
    /\ depUid' = R.X.depUid
    /\ hostOp' = [n |-> hostOp.n + 1, name |-> name, o |-> o, k |-> k, v |-> v,
                  args |-> args, ob |-> ob, ntf |-> R.ntf, at |-> Len(trace),
                  ret |-> IF "ret" \in DOMAIN R THEN R.ret ELSE Undef]
    /\ stack' = IF R.ntf = <<>> \/ subs[R.ntf[1]] = <<>>
                THEN stack
                ELSE <<NotifyFrame(notifySubs(subs[R.ntf[1]]))>>
    /\ UNCHANGED <<depVars, tgtVars, schedVars, exc, histVars>>
    /\ UNCHANGED <<shouldObserve, serverRendering, value, expr, trace>>
    /\ UNCHANGED extVars

\* observe(o, asRootData); the Observer returned is known by the id of its dep.
observeOp(o, asRootData, cap) ==
    LET R == observe(St, Ref(o), asRootData)
    IN  HostDo(cap, "observe", o, 0, Bool(asRootData), NoArgs, [X |-> R.X, ntf |-> <<>>],
               IF R.ob = 0 THEN 0 ELSE R.X.heap[R.ob].ob)

\* toggleObserving(b)
toggleObserving(b) ==
    /\ ~exc /\ AtTop
    /\ shouldObserve' = b
    /\ UNCHANGED <<vars, heap, serverRendering, depUid, value, expr, trace, hostOp>>
    /\ UNCHANGED extVars

\* o[k] = v
AssignOp(o, k, v, cap) ==
    /\ heap[o].kind # "array"
    /\ HostDo(cap, "assign", o, k, v, NoArgs, Assign(St, o, k, v), 0)

\* set(o, k, v) on an object
SetOp(o, k, v, cap) ==
    /\ heap[o].kind # "array"
    /\ HostDo(cap, "set", o, k, v, NoArgs, set(St, o, k, v), 0)

\* The host program reads o[k] outside every watcher: reactiveGetter with
\* the Dep.target there is at the top level.
ReadOp(o, k, cap) ==
    /\ ~exc /\ AtTop
    /\ hostOp.n < cap
    /\ LET ds == readDeps(St, o, k)
           H == dependAll([ws |-> watchers, subs |-> subs], ds, target, 1)
       IN  /\ watchers' = H.ws
           /\ subs' = H.subs
    /\ hostOp' = [n |-> hostOp.n + 1, name |-> "read", o |-> o, k |-> k, v |-> Undef,
                  args |-> NoArgs, ob |-> 0, ntf |-> <<>>, at |-> Len(trace),
                  ret |-> getterValue(St, o, k)]
    /\ UNCHANGED <<uid, tgtVars, schedVars, stack, exc, histVars>>
    /\ UNCHANGED <<heap, shouldObserve, serverRendering, depUid, value, expr, trace>>
    /\ UNCHANGED extVars

\* del(o, k) on an object
DelOp(o, k, cap) ==
    /\ heap[o].kind # "array"
    /\ HostDo(cap, "del", o, k, Undef, NoArgs, del(St, o, k), 0)

\* set(arr, i, v) on an array
SetIndexOp(o, i, v, cap) ==
    /\ heap[o].kind = "array"
    /\ i < MaxLen
    /\ HostDo(cap, "set", o, i, v, NoArgs, set(St, o, i, v), 0)

\* arr[method](...args)
ArrayOp(method, o, args, cap) ==
    /\ heap[o].kind = "array"
    /\ Len(original(method, heap[o].elems, args)) <= MaxLen
    /\ HostDo(cap, method, o, 0, Undef, args, ArrayCall(St, method, o, args), 0)

\* A faulty index assignment, to try the properties on: it goes through
\* set().
IndexAssignOp_ViaSet(o, i, v, cap) ==
    /\ heap[o].kind = "array"
    /\ i < MaxLen
    /\ HostDo(cap, "index", o, i, v, NoArgs, set(St, o, i, v), 0)

\* arr[i] = v
IndexAssignOp(o, i, v, cap) ==
    /\ heap[o].kind = "array"
    /\ i < MaxLen
    /\ HostDo(cap, "index", o, i, v, NoArgs,
              [X |-> IndexAssign(St, o, i, v), ntf |-> <<>>], 0)

\* ---------------------------------------------------------- deep watchers

\* The children _traverse visits: val.length of an array, Object.keys(val)
\* of any other object.
ChildCount(X, o) ==
    IF X.heap[o].kind = "array"
    THEN Len(X.heap[o].elems)
    ELSE Cardinality(X.heap[o].keys)

\* val[i] or val[keys[i]], with i counted from 1
ChildAt(X, o, i) ==
    IF X.heap[o].kind = "array"
    THEN X.heap[o].elems[i]
    ELSE X.heap[o].val[KeysSeq(X.heap[o].keys)[i]]

\* The Deps that reading this child calls depend() on: those of the
\* property's reactiveGetter; an element of an array has no accessor.
ChildDeps(X, o, i) ==
    IF X.heap[o].kind = "array"
    THEN <<>>
    ELSE readDeps(X, o, KeysSeq(X.heap[o].keys)[i])

\* _traverse(val, seen) up to its loops: enter says that it goes on to the
\* children of val, seen is the set afterwards.
_traverse(X, seen, v) ==
    IF ~isObject(v) THEN [enter |-> FALSE, seen |-> seen]
    ELSE LET O == X.heap[v.v]
         IN  IF O.frozen \/ O.kind = "vnode"
             THEN [enter |-> FALSE, seen |-> seen]
             ELSE IF O.ob # 0
             THEN IF O.ob \in seen
                  THEN [enter |-> FALSE, seen |-> seen]
                  ELSE [enter |-> TRUE, seen |-> seen \cup {O.ob}]
             ELSE [enter |-> TRUE, seen |-> seen]

\* An activation of _traverse on object o, in its loop: i children are
\* left.  seen (history): seenObjects when o was entered.
TravFrame(X, o, seen) == [o |-> o, i |-> ChildCount(X, o), seen |-> seen]

\* new Watcher(vm, getter, cb, {deep: true, user: true}), as $watch makes it.
WatchDeep(e, cap) ==
    /\ ~exc /\ AtTop
    /\ uid < cap
    /\ uid' = uid + 1
    /\ watchers' = [watchers EXCEPT ![uid + 1] =
                        NewWatcher(FALSE, FALSE, TRUE, Script(<<>>), Script(<<>>))]
    /\ expr' = [expr EXCEPT ![uid + 1] = e]
    /\ deep' = deep \cup {uid + 1}
    /\ LET T == pushTarget([stack |-> targetStack, target |-> target], uid + 1)
       IN  /\ stack' = PushGet(stack, uid + 1, "ctor")
           /\ targetStack' = T.stack
           /\ target' = T.target
    /\ UNCHANGED <<subs, schedVars, exc, histVars>>
    /\ UNCHANGED <<heap, shouldObserve, serverRendering, depUid, value, trace, hostOp>>
    /\ UNCHANGED <<async, seenObjects, trav, evVars, hookVars>>

\* The getter of a deep watcher has returned: the finally block of get()
\* calls traverse(value), which calls _traverse(value, seenObjects).
TraverseBegin ==
    /\ MayReturn
    /\ Top.k = "get"
    /\ Top.w \in deep
    /\ Top.pc = ""
    /\ LET v == Val(expr[Top.w])
           R == _traverse(St, seenObjects, v)
       IN  /\ seenObjects' = R.seen
           /\ trav' = IF R.enter THEN <<TravFrame(St, v.v, seenObjects)>> ELSE <<>>
    /\ stack' = [stack EXCEPT ![Len(stack)].pc = "traverse"]
    /\ UNCHANGED <<depVars, tgtVars, schedVars, exc, histVars>>
    /\ UNCHANGED <<heap, shouldObserve, serverRendering, depUid, value, expr, trace,
                    hostOp, async, deep, evVars, hookVars>>

\* One iteration of while (i--) _traverse(val[i], seen) or
\* while (i--) _traverse(val[keys[i]], seen): the child is read, through
\* its reactiveGetter when it has one, and _traverse is called on it.
TraverseStep ==
    /\ ~exc
    /\ stack # <<>>
    /\ Top.k = "get" /\ Top.pc = "traverse"
    /\ trav # <<>>
    /\ trav[Len(trav)].i > 0
    /\ LET f == trav[Len(trav)]
           child == ChildAt(St, f.o, f.i)
           ds == ChildDeps(St, f.o, f.i)
           H == dependAll([ws |-> watchers, subs |-> subs], ds, target, 1)
           R == _traverse(St, seenObjects, child)
           t == [trav EXCEPT ![Len(trav)].i = @ - 1]
       IN  /\ R.enter => Len(trav) < MaxTravDepth
           /\ watchers' = H.ws
           /\ subs' = H.subs
           /\ stack' = Touch(stack, target, SeqToSet(ds))
           /\ seenObjects' = R.seen
           /\ trav' = IF R.enter
                      THEN Append(t, TravFrame(St, child.v, seenObjects))
                      ELSE t
    /\ UNCHANGED <<uid, tgtVars, schedVars, exc, histVars>>
    /\ UNCHANGED <<heap, shouldObserve, serverRendering, depUid, value, expr, trace,
                    hostOp, async, deep, evVars, hookVars>>

\* The loop of an activation of _traverse ends and it returns.
TraverseReturn ==
    /\ ~exc
    /\ stack # <<>>
    /\ Top.k = "get" /\ Top.pc = "traverse"
    /\ trav # <<>>
    /\ trav[Len(trav)].i = 0
    /\ trav' = SubSeq(trav, 1, Len(trav) - 1)
    /\ UNCHANGED <<vars, heap, shouldObserve, serverRendering, depUid, value, expr,
                    trace, hostOp, async, deep, seenObjects, evVars,
                    hookVars>>

\* _traverse has returned to traverse: seenObjects.clear(), then the rest
\* of the finally block of get() and what its caller does with the value;
\* run() calls the callback of a deep watcher whatever the value is.
TraverseEnd ==
    /\ ~exc
    /\ stack # <<>>
    /\ Top.k = "get" /\ Top.pc = "traverse"
    /\ trav = <<>>
    /\ seenObjects' = {}
    /\ LET w == Top.w
           v == Val(expr[w])
       IN  /\ GetEnd(TRUE)
           /\ value' = [value EXCEPT ![w] = v]
           /\ trace' = IF Top.from = "run"
                       THEN trace \o <<GetEv(w, v), CbEv(w, v, value[w])>>
                       ELSE Append(trace, GetEv(w, v))
    /\ UNCHANGED <<uid, schedVars, exc, histVars>>
    /\ UNCHANGED <<heap, shouldObserve, serverRendering, depUid, expr, hostOp, async,
                    deep, trav, evVars, hookVars>>

\* --------------------------------------------------------------- events
\* One component and one event name.  A registered handler is
\* [fn, on]: the function fn itself (on = 0) or the wrapper number on that
\* $once made, whose property fn is fn.

Fns == 1..NumFns

Plain(f) == [fn |-> f, on |-> 0]
Wrapper(f, r) == [fn |-> f, on |-> r]

\* An activation of $emit: cbs is the copy toArray made (live = 0) or the
\* array vm._events[event] itself (its id in live); i and l are those of
\* the loop.
EmitFrame(live, cbs, l) ==
    [k |-> "emit", live |-> live, cbs |-> cbs, i |-> 0, l |-> l, n |-> 0, fn |-> 0]
\* An activation of a handler function; n counts what it has done.
FnFrame(f) ==
    [k |-> "fn", live |-> 0, cbs |-> <<>>, i |-> 0, l |-> 0, n |-> 0, fn |-> f]

\* User code may call the methods of vm: the host program while nothing
\* runs, a handler while it runs.
MayCall ==
    IF emitStack = <<>> THEN TRUE
    ELSE /\ emitStack[Len(emitStack)].k = "fn"
         /\ emitStack[Len(emitStack)].n < MaxFnOps

\* The activations after the running handler has done one more operation.
Called1(st) == IF st = <<>> THEN st ELSE [st EXCEPT ![Len(st)].n = @ + 1]

\* (vm._events[event] || (vm._events[event] = [])).push(fn)
on(A, cur, h) ==
    IF cur = 0
    THEN [arrays |-> Append(A, <<h>>), cur |-> Len(A) + 1]
    ELSE [arrays |-> [A EXCEPT ![cur] = Append(@, h)], cur |-> cur]

\* The while (i--) loop of $off(event, fn): the position (from 1) of the
\* last handler cb with cb === fn or cb.fn === fn, 0 if there is none.
RECURSIVE offPos(_, _, _)
offPos(cbs, h, i) ==
    IF i = 0 THEN 0
    ELSE IF cbs[i] = h \/ (h.on = 0 /\ cbs[i].on # 0 /\ cbs[i].fn = h.fn)
         THEN i
         ELSE offPos(cbs, h, i - 1)

\* A faulty $off, to try the properties on: it removes nothing.
off_Nothing(A, cur, h) == A

\* $off(event, fn) with both arguments: cbs.splice(i, 1) at the match
off(A, cur, h) ==
    IF cur = 0 THEN A
    ELSE LET i == offPos(A[cur], h, Len(A[cur]))
         IN  IF i = 0 THEN A
             ELSE [A EXCEPT ![cur] = SubSeq(@, 1, i - 1) \o SubSeq(@, i + 1, Len(@))]

\* vm.$on(event, fn)
OnOp(f) ==
    /\ MayCall
    /\ IF evCurrent = 0
       THEN Len(evArrays) < MaxEvArrays
       ELSE Len(evArrays[evCurrent]) < MaxHandlers
    /\ LET R == on(evArrays, evCurrent, Plain(f))
       IN  evArrays' = R.arrays /\ evCurrent' = R.cur
    /\ emitStack' = Called1(emitStack)
    /\ UNCHANGED <<onceUid, invoked, emits>>
    /\ UNCHANGED <<vars, heap, shouldObserve, serverRendering, depUid, value, expr,
                    trace, hostOp, async, deepVars, hookVars>>

\* vm.$once(event, fn): function on () {...}; on.fn = fn; vm.$on(event, on)
OnceOp(f) ==
    /\ MayCall
    /\ onceUid < MaxOnce
    /\ IF evCurrent = 0
       THEN Len(evArrays) < MaxEvArrays
       ELSE Len(evArrays[evCurrent]) < MaxHandlers
    /\ onceUid' = onceUid + 1
    /\ LET R == on(evArrays, evCurrent, Wrapper(f, onceUid + 1))
       IN  evArrays' = R.arrays /\ evCurrent' = R.cur
    /\ emitStack' = Called1(emitStack)
    /\ UNCHANGED <<invoked, emits>>
    /\ UNCHANGED <<vars, heap, shouldObserve, serverRendering, depUid, value, expr,
                    trace, hostOp, async, deepVars, hookVars>>

\* vm.$off(event, fn), called by user code with a function it registered
OffOp(f) ==
    /\ MayCall
    /\ evArrays' = off(evArrays, evCurrent, Plain(f))
    /\ emitStack' = Called1(emitStack)
    /\ UNCHANGED <<evCurrent, onceUid, invoked, emits>>
    /\ UNCHANGED <<vars, heap, shouldObserve, serverRendering, depUid, value, expr,
                    trace, hostOp, async, deepVars, hookVars>>

\* vm.$off(event): vm._events[event] = null, when there are handlers
OffEventOp ==
    /\ MayCall
    /\ evCurrent # 0
    /\ evCurrent' = 0
    /\ emitStack' = Called1(emitStack)
    /\ UNCHANGED <<evArrays, onceUid, invoked, emits>>
    /\ UNCHANGED <<vars, heap, shouldObserve, serverRendering, depUid, value, expr,
                    trace, hostOp, async, deepVars, hookVars>>

\* vm.$emit(event) up to the loop: cbs = vm._events[event], copied by
\* toArray when it has more than one element.
EmitOp ==
    /\ MayCall
    /\ Len(emitStack) < MaxEmitDepth
    /\ emits < MaxEmits
    /\ emits' = emits + 1
    /\ emitStack' =
          IF evCurrent = 0
          THEN Called1(emitStack)
          ELSE LET cbs == evArrays[evCurrent]
               IN  Append(Called1(emitStack),
                          IF Len(cbs) > 1
                          THEN EmitFrame(0, cbs, Len(cbs))
                          ELSE EmitFrame(evCurrent, <<>>, Len(cbs)))
    /\ UNCHANGED <<evArrays, evCurrent, onceUid, invoked>>
    /\ UNCHANGED <<vars, heap, shouldObserve, serverRendering, depUid, value, expr,
                    trace, hostOp, async, deepVars, hookVars>>

\* One iteration of the loop of $emit: invokeWithErrorHandling(cbs[i], ...).
\* A wrapper first calls vm.$off(event, on) and then fn; a slot of the live
\* array that is no longer there holds undefined, and the call of it
\* fails inside invokeWithErrorHandling, which catches.
EmitStep ==
    /\ emitStack # <<>>
    /\ LET f == emitStack[Len(emitStack)]
           cbs == IF f.live = 0 THEN f.cbs ELSE evArrays[f.live]
           st == [emitStack EXCEPT ![Len(emitStack)].i = @ + 1]
       IN  /\ f.k = "emit"
           /\ f.i < f.l
           /\ IF f.i + 1 > Len(cbs)
              THEN /\ emitStack' = st
                   /\ UNCHANGED <<evArrays, invoked>>
              ELSE LET h == cbs[f.i + 1]
                   IN  /\ emitStack' = Append(st, FnFrame(h.fn))
                       /\ evArrays' = IF h.on # 0 THEN off(evArrays, evCurrent, h)
                                      ELSE evArrays
                       /\ invoked' = IF h.on # 0 THEN [invoked EXCEPT ![h.on] = @ + 1]
                                     ELSE invoked
    /\ UNCHANGED <<evCurrent, onceUid, emits>>
    /\ UNCHANGED <<vars, heap, shouldObserve, serverRendering, depUid, value, expr,
                    trace, hostOp, async, deepVars, hookVars>>

\* The loop of $emit ends and $emit returns.
EmitDone ==
    /\ emitStack # <<>>
    /\ emitStack[Len(emitStack)].k = "emit"
    /\ emitStack[Len(emitStack)].i >= emitStack[Len(emitStack)].l
    /\ emitStack' = SubSeq(emitStack, 1, Len(emitStack) - 1)
    /\ UNCHANGED <<evArrays, evCurrent, onceUid, invoked, emits>>
    /\ UNCHANGED <<vars, heap, shouldObserve, serverRendering, depUid, value, expr,
                    trace, hostOp, async, deepVars, hookVars>>

\* A handler returns.
FnReturn ==
    /\ emitStack # <<>>
    /\ emitStack[Len(emitStack)].k = "fn"
    /\ emitStack' = SubSeq(emitStack, 1, Len(emitStack) - 1)
    /\ UNCHANGED <<evArrays, evCurrent, onceUid, invoked, emits>>
    /\ UNCHANGED <<vars, heap, shouldObserve, serverRendering, depUid, value, expr,
                    trace, hostOp, async, deepVars, hookVars>>

\* ---------------------------------------------------------- specifications

\* The options watchers are constructed with: a render watcher (no options
\* but before), a computed watcher ({lazy: true}), and $watch watchers, which
\* are user watchers, deferred or {sync: true}.
WatcherOptions ==
    { [lazy |-> FALSE, sync |-> FALSE, user |-> FALSE],
      [lazy |-> TRUE, sync |-> FALSE, user |-> FALSE],
      [lazy |-> FALSE, sync |-> FALSE, user |-> TRUE],
      [lazy |-> FALSE, sync |-> TRUE, user |-> TRUE] }

\* The core with free user code and every watcher mode.
Next ==
    \/ \E o \in WatcherOptions :
          CreateWatcher(o.lazy, o.sync, o.user, FreeFn, FreeFn, NumWatchers)
    \/ \E d \in 1..NumSpecDeps : UserRead(d)
    \/ \E d \in 1..NumSpecDeps : UserWrite(d)
    \/ \E w \in Watchers : UserTeardown(w)
    \/ \E w \in Watchers : computedGetter(w)
    \/ UserThrow
    \/ \E fire \in BOOLEAN : GetterReturn(fire)
    \/ CbReturn
    \/ \E fire \in BOOLEAN : Unwind(fire)
    \/ NotifyStep(1)
    \/ NotifyDone
    \/ FlushBegin
    \/ FlushStep(MaxFlushRuns)
    \/ FlushAfterRun
    \/ FlushEnd

Spec == Init /\ [][Next]_vars

\* The core with config.async set and cleared by the host program: while it
\* is false notify() sorts its copy of subs and queueWatcher runs the flush
\* itself.
NextSync ==
    \/ Next
    \/ \E b \in BOOLEAN : SetAsync(b)

SpecSync == Init /\ [][NextSync]_allVars

\* The scheduler with three deferred watchers, each reading its own
\* property, whose callbacks are free code writing properties.
NextSched ==
    \/ \E u \in BOOLEAN :
          CreateWatcher(FALSE, FALSE, u, Script(<<OpRead(uid + 1)>>),
                        FreeOf({"write"}), MaxWatchers)
    \/ \E d \in Deps : UserRead(d)
    \/ \E d \in Deps : UserWrite(d)
    \/ \E fire \in BOOLEAN : GetterReturn(fire)
    \/ CbReturn
    \/ NotifyStep(1)
    \/ NotifyDone
    \/ FlushBegin
    \/ FlushStep(MaxSchedRuns)
    \/ FlushAfterRun
    \/ FlushEnd

SpecSched == Init /\ [][NextSched]_vars

\* The watchers of SpecLoop: the callback does nothing, writes one property
\* or throws (in a user watcher, whose errors run() reports, and in an
\* internal one).
LoopWatchers ==
    {[user |-> FALSE, cb |-> Script(<<>>)],
     [user |-> FALSE, cb |-> Script(<<OpThrow>>)],
     [user |-> TRUE, cb |-> Script(<<OpThrow>>)]}
        \cup {[user |-> FALSE, cb |-> Script(<<OpWrite(d)>>)] : d \in 1..NumWatchers}

\* The scheduler with deferred watchers, each reading its own property,
\* whose callbacks are scripts: a flush is followed through all its runs.
NextLoop ==
    \/ \E o \in LoopWatchers :
          CreateWatcher(FALSE, FALSE, o.user, Script(<<OpRead(uid + 1)>>), o.cb,
                        NumWatchers)
    \/ \E d \in 1..NumWatchers : UserRead(d)
    \/ \E d \in 1..NumWatchers : UserWrite(d)
    \/ UserThrow
    \/ \E fire \in BOOLEAN : GetterReturn(fire)
    \/ CbReturn
    \/ \E fire \in BOOLEAN : Unwind(fire)
    \/ NotifyStep(MaxUpdates)
    \/ NotifyDone
    \/ FlushBegin
    \/ FlushStep(MaxLoopRuns)
    \/ FlushAfterRun
    \/ FlushEnd

SpecLoop == Init /\ [][NextLoop]_vars

\* The observer on plain objects.  Object 1 is {1: 1, 2: object 2}, object 2
\* is {1: NaN}, object 3 is any kind of object; the host program observes,
\* toggles shouldObserve, assigns and calls set().
Kinds == {"plain", "array", "vnode", "other"}

ObsVals == {Num(2), Ref(3)}

InitObs ==
    /\ NoWatchers
    /\ subs = [d \in ObsDeps |-> <<>>]
    /\ \E kind \in Kinds, ext \in BOOLEAN, vue \in BOOLEAN :
          /\ vue => kind = "plain"
          /\ heap = [o \in Objs |->
                        CASE o = 1 -> NewObj("plain", TRUE, FALSE, {1, 2},
                                             [NoVals EXCEPT ![1] = Num(1), ![2] = Ref(2)],
                                             <<>>)
                          [] o = 2 -> NewObj("plain", TRUE, FALSE, {1},
                                             [NoVals EXCEPT ![1] = NaN], <<>>)
                          [] OTHER -> NewObj(kind, ext, vue,
                                             IF kind = "array" THEN {} ELSE {1},
                                             IF kind = "array" THEN NoVals
                                             ELSE [NoVals EXCEPT ![1] = Num(1)],
                                             IF kind = "array" THEN <<Ref(2)>> ELSE <<>>)]
    /\ shouldObserve = TRUE
    /\ serverRendering \in BOOLEAN
    /\ NoExt
    /\ depUid = 0
    /\ value = [w \in Watchers |-> Undef]
    /\ expr = [w \in Watchers |-> NoExpr]
    /\ trace = <<>>
    /\ hostOp = NoHostOp

NextObs ==
    \/ \E o \in Objs, r \in BOOLEAN : observeOp(o, r, MaxHostOps)
    \/ \E b \in BOOLEAN : toggleObserving(b)
    \/ \E o \in {1, 3}, k \in {1, 3}, v \in ObsVals : AssignOp(o, k, v, MaxHostOps)
    \/ \E o \in {1, 3}, k \in {1, 3}, v \in ObsVals : SetOp(o, k, v, MaxHostOps)

SpecObs == InitObs /\ [][NextObs]_allVars

\* set() and the setter with watchers.  Object 1 is {1: 1, 2: object 2} and
\* has been observed, as root data or not; object 2 is {1: NaN}; object 3 is
\* {1: 1}, a Vue instance or not, and has not been observed.
SetVals == {Num(1), NaN, Ref(3)}

SetProps == {PropId(1, 1), PropId(1, 2), PropId(2, 1)}

InitSet ==
    /\ NoWatchers
    /\ subs = [d \in ObsDeps |-> <<>>]
    /\ \E vue \in BOOLEAN, root \in BOOLEAN :
          LET h == [o \in Objs |->
                      CASE o = 1 -> NewObj("plain", TRUE, FALSE, {1, 2},
                                           [NoVals EXCEPT ![1] = Num(1), ![2] = Ref(2)],
                                           <<>>)
                        [] o = 2 -> NewObj("plain", TRUE, FALSE, {1},
                                           [NoVals EXCEPT ![1] = NaN], <<>>)
                        [] OTHER -> NewObj("plain", TRUE, vue, {1},
                                           [NoVals EXCEPT ![1] = Num(1)], <<>>)]
              R == observe([heap |-> h, depUid |-> 0, so |-> TRUE, ssr |-> FALSE],
                           Ref(1), root)
          IN  heap = R.X.heap /\ depUid = R.X.depUid
    /\ shouldObserve = TRUE
    /\ serverRendering = FALSE
    /\ NoExt
    /\ value = [w \in Watchers |-> Undef]
    /\ expr = [w \in Watchers |-> NoExpr]
    /\ trace = <<>>
    /\ hostOp = NoHostOp

NextSet ==
    \/ \E b \in BOOLEAN : toggleObserving(b)
    \/ \E o \in {1, 2}, v \in SetVals : AssignOp(o, 1, v, MaxSetOps)
    \/ \E o \in Objs, k \in {1, 3}, v \in {Num(1), NaN} : SetOp(o, k, v, MaxSetOps)
    \/ \E p \in SetProps : Watch(PropE(p), FALSE, NumWatchers)
    \/ \E p \in Props : PropRead(p)
    \/ GetterReturnVal
    \/ CbReturn
    \/ NotifyStep(1)
    \/ NotifyDone
    \/ FlushBegin
    \/ FlushStep(MaxFlushRuns)
    \/ FlushAfterRun
    \/ FlushEnd

SpecSet == InitSet /\ [][NextSet]_allVars

\* Arrays.  Object 1 is {1: object 2} and has been observed, object 2 is the
\* array [1, 2, 3], object 3 is {1: 1} and has not been observed.  One
\* watcher computes the length of the array, read through property 1 of
\* object 1 or from a variable, or returns the array.
ArrVals == {Num(4), Num(99), Ref(3)}

ArrExprs == {LenE(PropId(1, 1)), LenOfE(2), PropE(PropId(1, 1))}

ArrArgs ==
    {Args(i, dc, items) : i \in 0..1, dc \in 0..1,
                          items \in {<<>>} \cup {<<v>> : v \in ArrVals}}

InitArr ==
    /\ NoWatchers
    /\ subs = [d \in ObsDeps |-> <<>>]
    /\ LET h == [o \in Objs |->
                    CASE o = 1 -> NewObj("plain", TRUE, FALSE, {1},
                                         [NoVals EXCEPT ![1] = Ref(2)], <<>>)
                      [] o = 2 -> NewObj("array", TRUE, FALSE, {}, NoVals,
                                         <<Num(1), Num(2), Num(3)>>)
                      [] OTHER -> NewObj("plain", TRUE, FALSE, {1},
                                         [NoVals EXCEPT ![1] = Num(1)], <<>>)]
           R == observe([heap |-> h, depUid |-> 0, so |-> TRUE, ssr |-> FALSE],
                        Ref(1), FALSE)
       IN  heap = R.X.heap /\ depUid = R.X.depUid
    /\ shouldObserve = TRUE
    /\ serverRendering = FALSE
    /\ NoExt
    /\ value = [w \in Watchers |-> Undef]
    /\ expr = [w \in Watchers |-> NoExpr]
    /\ trace = <<>>
    /\ hostOp = NoHostOp

NextArr ==
    \/ \E m \in {"push", "unshift"}, v \in ArrVals :
          ArrayOp(m, 2, Args(0, 0, <<v>>), MaxArrOps)
    \/ \E m \in {"pop", "shift", "sort", "reverse"} : ArrayOp(m, 2, NoArgs, MaxArrOps)
    \/ \E a \in ArrArgs : ArrayOp("splice", 2, a, MaxArrOps)
    \/ \E i \in {0, 3}, v \in ArrVals : SetIndexOp(2, i, v, MaxArrOps)
    \/ \E i \in {0, 3}, v \in ArrVals : IndexAssignOp(2, i, v, MaxArrOps)
    \/ \E e \in ArrExprs : Watch(e, FALSE, 1)
    \/ \E p \in Props : PropRead(p)
    \/ GetterReturnVal
    \/ CbReturn
    \/ NotifyStep(1)
    \/ NotifyDone
    \/ FlushBegin
    \/ FlushStep(MaxFlushRuns)
    \/ FlushAfterRun
    \/ FlushEnd

SpecArr == InitArr /\ [][NextArr]_allVars

\* Watchers on expressions.  Object 1 has been observed and is either
\* o = {flag: true, a: 1, b: 1} (keys 1, 2, 3), watched by
\* () => o.flag ? o.a : o.b, or r = {1: 1, 2: 2}, watched by () => r[1] + r[2]
\* or by a lazy watcher on () => r[1] * 2 and a watcher that adds r[2] to the
\* computed property of the lazy one.  The host program assigns; it does
\* not read.
WatchVals(k) ==
    IF 3 \in heap[1].keys
    THEN CASE k = 1 -> {Bool(FALSE)}
           [] k = 2 -> {Num(99)}
           [] OTHER -> {Num(2), Num(3)}
    ELSE CASE k = 1 -> {Num(10), Num(30)}
           [] k = 2 -> {Num(20)}
           [] OTHER -> {}

InitWatch ==
    /\ NoWatchers
    /\ subs = [d \in ObsDeps |-> <<>>]
    /\ \E cond \in BOOLEAN :
          LET h == [o \in Objs |->
                      IF o = 1
                      THEN IF cond
                           THEN NewObj("plain", TRUE, FALSE, {1, 2, 3},
                                       [NoVals EXCEPT ![1] = Bool(TRUE), ![2] = Num(1),
                                                      ![3] = Num(1)], <<>>)
                           ELSE NewObj("plain", TRUE, FALSE, {1, 2},
                                       [NoVals EXCEPT ![1] = Num(1), ![2] = Num(2)], <<>>)
                      ELSE NewObj("plain", TRUE, FALSE, {}, NoVals, <<>>)]
              R == observe([heap |-> h, depUid |-> 0, so |-> TRUE, ssr |-> FALSE],
                           Ref(1), FALSE)
          IN  heap = R.X.heap /\ depUid = R.X.depUid
    /\ shouldObserve = TRUE
    /\ serverRendering = FALSE
    /\ NoExt
    /\ value = [w \in Watchers |-> Undef]
    /\ expr = [w \in Watchers |-> NoExpr]
    /\ trace = <<>>
    /\ hostOp = NoHostOp

NextWatch ==
    \/ \E k \in Keys : \E v \in WatchVals(k) : AssignOp(1, k, v, MaxWatchOps)
    \/ 3 \in heap[1].keys
          /\ Watch(CondE(PropId(1, 1), PropId(1, 2), PropId(1, 3)), FALSE, 1)
    \/ 3 \notin heap[1].keys /\ Watch(AddE(PropId(1, 1), PropId(1, 2)), FALSE, 1)
    \/ 3 \notin heap[1].keys /\ Watch(Mul2E(PropId(1, 1)), TRUE, 1)
    \/ uid = 1 /\ watchers[1].lazy /\ Watch(CPlusE(1, PropId(1, 2)), FALSE, 2)
    \/ \E p \in Props : PropRead(p)
    \/ \E w \in Watchers : InUser /\ computedGetter(w)
    \/ GetterReturnVal
    \/ CbReturn
    \/ NotifyStep(1)
    \/ NotifyDone
    \/ FlushBegin
    \/ FlushStep(MaxFlushRuns)
    \/ FlushAfterRun
    \/ FlushEnd

SpecWatch == InitWatch /\ [][NextWatch]_allVars

\* vm.$watch(getter, cb, {sync: true}) with the getter of expression e.
WatchSync(e, cap) ==
    /\ ~exc /\ AtTop
    /\ uid < cap
    /\ uid' = uid + 1
    /\ watchers' = [watchers EXCEPT ![uid + 1] =
                        NewWatcher(FALSE, TRUE, TRUE, Script(<<>>), Script(<<>>))]
    /\ expr' = [expr EXCEPT ![uid + 1] = e]
    /\ LET T == pushTarget([stack |-> targetStack, target |-> target], uid + 1)
       IN  /\ stack' = PushGet(stack, uid + 1, "ctor")
           /\ targetStack' = T.stack
           /\ target' = T.target
    /\ UNCHANGED <<subs, schedVars, exc, histVars>>
    /\ UNCHANGED <<heap, shouldObserve, serverRendering, depUid, value, trace, hostOp>>
    /\ UNCHANGED extVars

\* A computed property c = () => r[1] * 2 (lazy watcher 1) on the object
\* of InitWatch, read by the host program and by a second watcher: one
\* with { sync: true } on () => r[1] + c, or a deferred one on
\* () => c + r[2].  The host program assigns r[1] and r[2], reads c and
\* tears watchers down.
LazyVals == {Num(1), Num(2)}

InitLazy ==
    /\ InitWatch
    /\ 3 \notin heap[1].keys

NextLazy ==
    \/ \E k \in {1, 2} : \E v \in LazyVals : AssignOp(1, k, v, MaxLazyOps)
    \/ uid = 0 /\ Construct(Mul2E(PropId(1, 1)), TRUE, FALSE, 1)
    \/ uid = 1 /\ WatchSync(PlusCE(PropId(1, 1), 1), 2)
    \/ uid = 1 /\ Watch(CPlusE(1, PropId(1, 2)), FALSE, 2)
    \/ \E p \in Props : PropRead(p)
    \/ \E w \in Watchers : computedGetter(w)
    \/ \E w \in Watchers : AtTop /\ watchers[w].active /\ UserTeardown(w)
    \/ GetterReturnVal
    \/ CbReturn
    \/ NotifyStep(1)
    \/ NotifyDone
    \/ FlushBegin
    \/ FlushStep(MaxFlushRuns)
    \/ FlushAfterRun
    \/ FlushEnd

SpecLazy == InitLazy /\ [][NextLazy]_allVars

\* ------------------------------------------------- the hooks of a flush

\* The watchers of SpecHooks: internal deferred watchers, each reading its
\* own property.  One has no before hook and is not the render watcher of
\* its component (isRenderWatcher), and its callback does nothing or
\* throws; the others have options.before, are render watchers or not, of
\* a component that is mounted or not (the host sets vm._isMounted), and
\* the getter may hand the component to queueActivatedComponent, as the
\* patch of a kept-alive component does.
HookWatchers ==
    [before : {FALSE}, render : {FALSE}, mounted : {FALSE}, activates : {FALSE},
     throws : BOOLEAN]
        \cup [before : {TRUE}, render : BOOLEAN, mounted : BOOLEAN,
              activates : BOOLEAN, throws : {FALSE}]

\* new Watcher(vm, getter, cb, {before}, isRenderWatcher)
CreateHooked(o, cap) ==
    /\ ~exc /\ AtTop
    /\ uid < cap
    /\ uid' = uid + 1
    /\ watchers' = [watchers EXCEPT ![uid + 1] =
           NewWatcher(FALSE, FALSE, FALSE,
                      Script(IF o.activates
                             THEN <<OpRead(uid + 1), OpActivate(uid + 1)>>
                             ELSE <<OpRead(uid + 1)>>),
                      Script(IF o.throws THEN <<OpThrow>> ELSE <<>>))]
    /\ before' = IF o.before THEN before \cup {uid + 1} ELSE before
    /\ comp' = [comp EXCEPT ![uid + 1] =
                    [render |-> o.render, mounted |-> o.mounted, destroyed |-> FALSE,
                     inactive |-> FALSE]]
    /\ LET T == pushTarget([stack |-> targetStack, target |-> target], uid + 1)
       IN  /\ stack' = PushGet(stack, uid + 1, "ctor")
           /\ targetStack' = T.stack
           /\ target' = T.target
    /\ UNCHANGED <<subs, schedVars, exc, histVars>>
    /\ UNCHANGED <<heap, shouldObserve, serverRendering, depUid, value, expr, trace,
                    hostOp, async, deepVars, evVars, activatedChildren, activatedQueue,
                    updatedQueue, fromHook>>

\* The host program destroys the component of watcher w: teardown() of its
\* watcher, vm._isDestroyed = true.
DestroyOp(w) ==
    /\ ~exc /\ AtTop
    /\ w <= uid
    /\ ~comp[w].destroyed
    /\ LET H == teardown([ws |-> watchers, subs |-> subs], w)
       IN  /\ watchers' = H.ws
           /\ subs' = H.subs
    /\ comp' = [comp EXCEPT ![w].destroyed = TRUE]
    /\ UNCHANGED <<uid, tgtVars, schedVars, stack, exc, histVars>>
    /\ UNCHANGED <<heap, shouldObserve, serverRendering, depUid, value, expr, trace,
                    hostOp, async, deepVars, evVars, before, activatedChildren,
                    activatedQueue, updatedQueue, fromHook>>

\* queueActivatedComponent(vm), called by the code that is running.
ActivateOp(c) ==
    /\ MayDo(OpActivate(c))
    /\ InUser
    /\ comp' = [comp EXCEPT ![c].inactive = FALSE]
    /\ activatedChildren' = Append(activatedChildren, c)
    /\ stack' = Did(stack)
    /\ UNCHANGED <<depVars, tgtVars, schedVars, exc, histVars>>
    /\ UNCHANGED <<heap, shouldObserve, serverRendering, depUid, value, expr, trace,
                    hostOp, async, deepVars, evVars, before, activatedQueue,
                    updatedQueue, fromHook>>

\* A faulty loop, to try the properties on: has[id] is cleared before the
\* before hook is called.
FlushBefore_ClearFirst(cap) ==
    /\ ~exc
    /\ stack # <<>>
    /\ Top.k = "flush"
    /\ Top.pc = "loop"
    /\ index < Len(queue)
    /\ index < cap
    /\ queue[index + 1] \in before
    /\ has' = has \ {queue[index + 1]}
    /\ stack' = Append([stack EXCEPT ![Len(stack)].pc = "pre"],
                       HookFrame(queue[index + 1], "before"))
    /\ UNCHANGED <<depVars, tgtVars, queue, circular, waiting, flushing, index, ticks,
                    exc, histVars>>
    /\ UNCHANGED obsVars

\* The head of an iteration of the loop: if (watcher.before) watcher.before()
FlushBefore(cap) ==
    /\ ~exc
    /\ stack # <<>>
    /\ Top.k = "flush"
    /\ Top.pc = "loop"
    /\ index < Len(queue)
    /\ index < cap
    /\ queue[index + 1] \in before
    /\ stack' = Append([stack EXCEPT ![Len(stack)].pc = "pre"],
                       HookFrame(queue[index + 1], "before"))
    /\ UNCHANGED <<depVars, tgtVars, schedVars, exc, histVars>>
    /\ UNCHANGED obsVars

\* A hook returns.
HookReturn ==
    /\ MayReturn
    /\ Top.k = "hook"
    /\ stack' = Rest
    /\ UNCHANGED <<depVars, tgtVars, schedVars, exc, histVars>>
    /\ UNCHANGED obsVars

\* After the loop: activatedQueue = activatedChildren.slice(), updatedQueue
\* = queue.slice(), resetSchedulerState() (which also empties
\* activatedChildren), and callActivatedHooks up to the head of its loop.
FlushReset ==
    /\ ~exc
    /\ stack # <<>>
    /\ Top.k = "flush"
    /\ Top.pc = "break" \/ (Top.pc = "loop" /\ index >= Len(queue))
    /\ activatedQueue' = activatedChildren
    /\ updatedQueue' = queue
    /\ resetSchedulerState
    /\ activatedChildren' = <<>>
    /\ stack' = [stack EXCEPT ![Len(stack)].pc = "activated", ![Len(stack)].i = 0]
    /\ flushRuns' = NoRuns
    /\ aborted' = (aborted \/ Top.pc = "break")
    /\ UNCHANGED <<depVars, tgtVars, ticks, exc, updates>>
    /\ UNCHANGED <<heap, shouldObserve, serverRendering, depUid, value, expr, trace,
                    hostOp, async, deepVars, evVars, before, comp, fromHook>>

\* callActivatedHooks, one iteration: queue[i]._inactive = true and
\* activateChildComponent(queue[i], true), which clears _inactive and calls
\* the activated hook of the component.
CallActivatedHook ==
    /\ ~exc
    /\ stack # <<>>
    /\ Top.k = "flush"
    /\ Top.pc = "activated"
    /\ Top.i < Len(activatedQueue)
    /\ LET c == activatedQueue[Top.i + 1]
       IN  /\ comp' = [comp EXCEPT ![c].inactive = FALSE]
           /\ stack' = Append([stack EXCEPT ![Len(stack)].i = @ + 1],
                              HookFrame(c, "activated"))
    /\ UNCHANGED <<depVars, tgtVars, schedVars, exc, histVars>>
    /\ UNCHANGED <<heap, shouldObserve, serverRendering, depUid, value, expr, trace,
                    hostOp, async, deepVars, evVars, before, activatedChildren,
                    activatedQueue, updatedQueue, fromHook>>

\* The loop of callActivatedHooks ends; callUpdatedHooks(updatedQueue) up to
\* the head of its loop: let i = queue.length
ActivatedDone ==
    /\ ~exc
    /\ stack # <<>>
    /\ Top.k = "flush"
    /\ Top.pc = "activated"
    /\ Top.i >= Len(activatedQueue)
    /\ stack' = [stack EXCEPT ![Len(stack)].pc = "updated",
                              ![Len(stack)].i = Len(updatedQueue)]
    /\ UNCHANGED <<depVars, tgtVars, schedVars, exc, histVars>>
    /\ UNCHANGED obsVars

\* callUpdatedHooks, one iteration of while (i--): the updated hook of the
\* component is called when the watcher is its render watcher and it is
\* mounted and not destroyed.
CallUpdatedHook ==
    /\ ~exc
    /\ stack # <<>>
    /\ Top.k = "flush"
    /\ Top.pc = "updated"
    /\ Top.i > 0
    /\ LET w == updatedQueue[Top.i]
           st == [stack EXCEPT ![Len(stack)].i = @ - 1]
       IN  stack' = IF comp[w].render /\ comp[w].mounted /\ ~comp[w].destroyed
                    THEN Append(st, HookFrame(w, "updated"))
                    ELSE st
    /\ UNCHANGED <<depVars, tgtVars, schedVars, exc, histVars>>
    /\ UNCHANGED obsVars

\* The loop of callUpdatedHooks ends and flushSchedulerQueue returns.
FlushReturn ==
    /\ ~exc
    /\ stack # <<>>
    /\ Top.k = "flush"
    /\ Top.pc = "updated"
    /\ Top.i = 0
    /\ stack' = Rest
    /\ UNCHANGED <<depVars, tgtVars, schedVars, exc, histVars>>
    /\ UNCHANGED obsVars

\* The scheduler with the hooks of a flush: two watchers of HookWatchers; the
\* host program and the hooks write the properties; the host destroys
\* components.
NextHooks ==
    \/ \E o \in HookWatchers : CreateHooked(o, NumWatchers)
    \/ \E d \in 1..NumWatchers : UserRead(d)
    \/ \E d \in 1..NumWatchers : UserWrite(d)
    \/ \E c \in 1..NumWatchers : ActivateOp(c)
    \/ \E w \in 1..NumWatchers : DestroyOp(w)
    \/ UserThrow
    \/ \E fire \in BOOLEAN : GetterReturn(fire)
    \/ CbReturn
    \/ \E fire \in BOOLEAN : Unwind(fire)
    \/ NotifyStep(1)
    \/ NotifyDone
    \/ FlushBegin
    \/ FlushBefore(MaxHookRuns)
    \/ HookReturn
    \/ FlushStep(MaxHookRuns)
    \/ FlushAfterRun
    \/ FlushReset
    \/ CallActivatedHook
    \/ ActivatedDone
    \/ CallUpdatedHook
    \/ FlushReturn

SpecHooks == Init /\ [][NextHooks]_allVars

\* del() with watchers, on the objects of InitSet; set() gives the objects
\* a third key to delete.
NextDel ==
    \/ \E o \in Objs, k \in {1, 3} : DelOp(o, k, MaxDelOps)
    \/ \E o \in Objs : SetOp(o, 3, Num(1), MaxDelOps)
    \/ \E p \in SetProps : Watch(PropE(p), FALSE, NumWatchers)
    \/ \E p \in Props : PropRead(p)
    \/ GetterReturnVal
    \/ CbReturn
    \/ NotifyStep(1)
    \/ NotifyDone
    \/ FlushBegin
    \/ FlushStep(MaxFlushRuns)
    \/ FlushAfterRun
    \/ FlushEnd

SpecDel == InitSet /\ [][NextDel]_allVars

\* reactiveGetter and the Observer of the value it returns, on the objects
\* of InitSet: the host program toggles shouldObserve, assigns numbers and
\* objects to the properties of object 1, observes object 3 and reads.
ChildVals == {Num(1), Ref(2), Ref(3)}

NextChild ==
    \/ \E b \in BOOLEAN : toggleObserving(b)
    \/ \E k \in {1, 2}, v \in ChildVals : AssignOp(1, k, v, MaxChildOps)
    \/ observeOp(3, FALSE, MaxChildOps)
    \/ \E k \in {1, 2} : ReadOp(1, k, MaxChildOps)
    \/ \E k \in {1, 2} : Watch(PropE(PropId(1, k)), FALSE, NumWatchers)
    \/ \E p \in Props : PropRead(p)
    \/ GetterReturnVal
    \/ CbReturn
    \/ NotifyStep(1)
    \/ NotifyDone
    \/ FlushBegin
    \/ FlushStep(MaxFlushRuns)
    \/ FlushAfterRun
    \/ FlushEnd

SpecChild == InitSet /\ [][NextChild]_allVars

\* Nested arrays.  Object 1 is r = {1: a1} and has been observed; a1 =
\* [a2], a2 = [a3], a3 = [e] are the arrays 2, 3 and 4 and e = {1: 1} is
\* object 5.  The host program pushes to and pops from the arrays and calls
\* set() on e; the watchers read r[1].
NestObjs == 1..NumNestObjs

NestVals == {Num(1), Ref(5)}

InitNest ==
    /\ NoWatchers
    /\ subs = [d \in ObsDeps |-> <<>>]
    /\ LET h == [o \in NestObjs |->
                    CASE o = 1 -> NewObj("plain", TRUE, FALSE, {1},
                                         [NoVals EXCEPT ![1] = Ref(2)], <<>>)
                      [] o \in {2, 3, 4} -> NewObj("array", TRUE, FALSE, {}, NoVals,
                                                   <<Ref(o + 1)>>)
                      [] OTHER -> NewObj("plain", TRUE, FALSE, {1},
                                         [NoVals EXCEPT ![1] = Num(1)], <<>>)]
           R == observe([heap |-> h, depUid |-> 0, so |-> TRUE, ssr |-> FALSE],
                        Ref(1), FALSE)
       IN  heap = R.X.heap /\ depUid = R.X.depUid
    /\ shouldObserve = TRUE
    /\ serverRendering = FALSE
    /\ NoExt
    /\ value = [w \in Watchers |-> Undef]
    /\ expr = [w \in Watchers |-> NoExpr]
    /\ trace = <<>>
    /\ hostOp = NoHostOp

NextNest ==
    \/ \E o \in {2, 3, 4}, v \in NestVals : ArrayOp("push", o, Args(0, 0, <<v>>), MaxNestOps)
    \/ \E o \in {2, 3, 4} : ArrayOp("pop", o, NoArgs, MaxNestOps)
    \/ SetOp(5, 2, Num(1), MaxNestOps)
    \/ Watch(PropE(PropId(1, 1)), FALSE, NumWatchers)
    \/ \E p \in Props : PropRead(p)
    \/ GetterReturnVal
    \/ CbReturn
    \/ NotifyStep(1)
    \/ NotifyDone
    \/ FlushBegin
    \/ FlushStep(MaxFlushRuns)
    \/ FlushAfterRun
    \/ FlushEnd

SpecNest == InitNest /\ [][NextNest]_allVars

\* The target stack.  r = {1: 1, 2: 2, 3: 3} has been observed; a computed
\* property doubles r[3]; a watcher of the framework reads r[1], creates a
\* component whose data is a function, and reads r[2]; data reads what it
\* likes of r and of the computed property, and may throw.  The host
\* program assigns and creates components too.
TargetVals == {Num(1), Num(7)}

InitTarget ==
    /\ NoWatchers
    /\ subs = [d \in ObsDeps |-> <<>>]
    /\ LET h == [o \in Objs |->
                   IF o = 1
                   THEN NewObj("plain", TRUE, FALSE, {1, 2, 3},
                               [NoVals EXCEPT ![1] = Num(1), ![2] = Num(2),
                                              ![3] = Num(3)], <<>>)
                   ELSE NewObj("plain", TRUE, FALSE, {}, NoVals, <<>>)]
           R == observe([heap |-> h, depUid |-> 0, so |-> TRUE, ssr |-> FALSE],
                        Ref(1), FALSE)
       IN  heap = R.X.heap /\ depUid = R.X.depUid
    /\ shouldObserve = TRUE
    /\ serverRendering = FALSE
    /\ NoExt
    /\ value = [w \in Watchers |-> Undef]
    /\ expr = [w \in Watchers |-> NoExpr]
    /\ trace = <<>>
    /\ hostOp = NoHostOp

NextTarget ==
    \/ \E k \in Keys, v \in TargetVals : AssignOp(1, k, v, MaxTargetOps)
    \/ uid = 0 /\ Construct(Mul2E(PropId(1, 3)), TRUE, FALSE, NumWatchers)
    \/ Construct(WithDataE(PropId(1, 1), PropId(1, 2)), FALSE, FALSE, NumWatchers)
    \/ GetDataBegin
    \/ GetDataEnd
    \/ \E p \in Props : PropRead(p)
    \/ \E w \in Watchers : InUser /\ computedGetter(w)
    \/ UserThrow
    \/ GetterReturnVal
    \/ CbReturn
    \/ NotifyStep(1)
    \/ NotifyDone
    \/ FlushBegin
    \/ FlushStep(MaxFlushRuns)
    \/ FlushAfterRun
    \/ FlushEnd

SpecTarget == InitTarget /\ [][NextTarget]_allVars

\* Getters that throw: r = {1: 1, 2: 2} observed; the watchers are made on
\* a getter that throws when r[1] is undefined, as a user watcher, as a
\* watcher of the framework, or as a computed property (lazy, of the
\* framework) that a user watcher adds r[2] to.
ThrowVals == {Num(1), Num(5), Undef}

InitThrow ==
    /\ NoWatchers
    /\ subs = [d \in ObsDeps |-> <<>>]
    /\ LET h == [o \in Objs |->
                   IF o = 1
                   THEN NewObj("plain", TRUE, FALSE, {1, 2},
                               [NoVals EXCEPT ![1] = Num(1), ![2] = Num(2)], <<>>)
                   ELSE NewObj("plain", TRUE, FALSE, {}, NoVals, <<>>)]
           R == observe([heap |-> h, depUid |-> 0, so |-> TRUE, ssr |-> FALSE],
                        Ref(1), FALSE)
       IN  heap = R.X.heap /\ depUid = R.X.depUid
    /\ shouldObserve = TRUE
    /\ serverRendering = FALSE
    /\ NoExt
    /\ value = [w \in Watchers |-> Undef]
    /\ expr = [w \in Watchers |-> NoExpr]
    /\ trace = <<>>
    /\ hostOp = NoHostOp

NextThrow ==
    \/ \E v \in ThrowVals : AssignOp(1, 1, v, MaxThrowOps)
    \/ \E u \in BOOLEAN : Construct(MustE(PropId(1, 1)), FALSE, u, NumWatchers)
    \/ uid = 0 /\ Construct(MustE(PropId(1, 1)), TRUE, FALSE, NumWatchers)
    \/ uid = 1 /\ watchers[1].lazy /\ Watch(CPlusE(1, PropId(1, 2)), FALSE, NumWatchers)
    \/ \E p \in Props : PropRead(p)
    \/ \E w \in Watchers : InUser /\ computedGetter(w)
    \/ UserThrow
    \/ GetterReturnVal
    \/ CbReturn
    \/ UnwindVal
    \/ NotifyStep(1)
    \/ NotifyDone
    \/ FlushBegin
    \/ FlushStep(MaxFlushRuns)
    \/ FlushAfterRun
    \/ FlushEnd

SpecThrow == InitThrow /\ [][NextThrow]_allVars

\* A deep watcher on data.x, where data = {x: o2}; o2 and o3 are objects or
\* arrays with one child each, a number or one of the three objects, and
\* each of them is extensible, not extensible (Object.preventExtensions)
\* or frozen.  data has been observed; the host program assigns data.x.
\* Cycles made of arrays alone are left out: dependArray, which the getter
\* of data.x calls, follows arrays inside arrays without any test.
DeepKinds == {"plain", "array"}
DeepModes == {"extensible", "sealed", "frozen"}
DeepChildren == {Num(1), Ref(1), Ref(2), Ref(3)}
DeepVals == {Ref(3), Num(7)}

DeepObj(kind, mode, child) ==
    [NewObj(kind, mode = "extensible", FALSE,
            IF kind = "array" THEN {} ELSE {1},
            IF kind = "array" THEN NoVals ELSE [NoVals EXCEPT ![1] = child],
            IF kind = "array" THEN <<child>> ELSE <<>>)
        EXCEPT !.frozen = (mode = "frozen")]

InitDeep ==
    /\ NoWatchers
    /\ subs = [d \in ObsDeps |-> <<>>]
    /\ \E k2, k3 \in DeepKinds, m2, m3 \in DeepModes, c2, c3 \in DeepChildren :
          /\ ~(k2 = "array" /\ c2 = Ref(2))
          /\ ~(k3 = "array" /\ c3 = Ref(3))
          /\ ~(k2 = "array" /\ k3 = "array" /\ c2 = Ref(3) /\ c3 = Ref(2))
          /\ LET h == [o \in Objs |->
                         CASE o = 1 -> NewObj("plain", TRUE, FALSE, {1},
                                              [NoVals EXCEPT ![1] = Ref(2)], <<>>)
                           [] o = 2 -> DeepObj(k2, m2, c2)
                           [] OTHER -> DeepObj(k3, m3, c3)]
                 R == observe([heap |-> h, depUid |-> 0, so |-> TRUE, ssr |-> FALSE],
                              Ref(1), TRUE)
             IN  heap = R.X.heap /\ depUid = R.X.depUid
    /\ shouldObserve = TRUE
    /\ serverRendering = FALSE
    /\ NoExt
    /\ value = [w \in Watchers |-> Undef]
    /\ expr = [w \in Watchers |-> NoExpr]
    /\ trace = <<>>
    /\ hostOp = NoHostOp

NextDeep ==
    \/ WatchDeep(PropE(PropId(1, 1)), 1)
    \/ \E v \in DeepVals : AssignOp(1, 1, v, MaxDeepOps)
    \/ \E p \in Props : PropRead(p)
    \/ TraverseBegin
    \/ TraverseStep
    \/ TraverseReturn
    \/ TraverseEnd
    \/ CbReturn
    \/ NotifyStep(1)
    \/ NotifyDone
    \/ FlushBegin
    \/ FlushStep(MaxFlushRuns)
    \/ FlushAfterRun
    \/ FlushEnd

SpecDeep == InitDeep /\ [][NextDeep]_allVars

\* The events of one component: the host program and the handlers register
\* and remove the functions of Fns and emit the event.
NextEvents ==
    \/ \E f \in Fns : OnOp(f)
    \/ \E f \in Fns : OnceOp(f)
    \/ \E f \in Fns : OffOp(f)
    \/ OffEventOp
    \/ EmitOp
    \/ EmitStep
    \/ EmitDone
    \/ FnReturn

SpecEvents == Init /\ [][NextEvents]_allVars

\* ================================================================ claims

DepsOf(w) == SeqToSet(watchers[w].deps)
SubsOf(d) == SeqToSet(subs[d])

\* No watcher is being evaluated and no flush is running.
Quiescent == AtTop

\* C1 as stated: at every quiescent moment, for every Dep d and every Watcher
\* w, w is in d.subs if and only if d is in w.deps.
C1_Original ==
    Quiescent =>
        \A w \in 1..uid : \A d \in Deps : (w \in SubsOf(d)) <=> (d \in DepsOf(w))

\* C1, amended: at every quiescent moment every subscriber of a Dep d has d
\* in its deps, and every active watcher is subscribed to each of its deps;
\* a watcher that was torn down may keep deps it no longer subscribes to.
C1_SubsMatchDeps ==
    Quiescent =>
        \A w \in 1..uid : \A d \in Deps :
            /\ (w \in SubsOf(d)) => (d \in DepsOf(w))
            /\ (watchers[w].active /\ d \in DepsOf(w)) => (w \in SubsOf(d))

\* C1 witness: a quiescent moment with an active watcher that has a dep and a
\* torn-down watcher that still has one.
C1_Witness ==
    /\ Quiescent
    /\ \E w \in 1..uid : watchers[w].active /\ DepsOf(w) # {}
    /\ \E w \in 1..uid : ~watchers[w].active /\ DepsOf(w) # {}

\* get() of the frame on top is about to return: the getter has returned, or
\* it has thrown in a user watcher, whose get() hands the error to
\* handleError and returns.
GetReturns ==
    /\ stack # <<>>
    /\ Top.k = "get"
    /\ MayReturn \/ (exc /\ watchers[Top.w].user)

\* The watcher of the frame on top as the finally block of its get() leaves it.
AfterGet == cleanupDeps([ws |-> watchers, subs |-> subs], Top.w).ws[Top.w]

\* C2 as stated: when Watcher.get() returns, newDeps and newDepIds are empty
\* and deps is exactly the set of Deps whose depend() was called while the
\* watcher was the current target during that evaluation, also when get() of
\* the same watcher is re-entered during its own evaluation.
C2_Original ==
    GetReturns =>
        /\ AfterGet.newDeps = <<>>
        /\ AfterGet.newDepIds = {}
        /\ SeqToSet(AfterGet.deps) = Top.touched

\* C2, restricted: the same for an evaluation during which get() of the same
\* watcher is not entered again and which is not itself such a nested get().
C2_NotReentered ==
    (GetReturns /\ ~Top.re /\ \A j \in 1..(Len(stack) - 1) :
                                  ~(stack[j].k = "get" /\ stack[j].w = Top.w)) =>
        /\ AfterGet.newDeps = <<>>
        /\ AfterGet.newDepIds = {}
        /\ SeqToSet(AfterGet.deps) = Top.touched

\* The flush is at the head of its loop with a watcher left to run.
FlushPicks ==
    /\ stack # <<>>
    /\ stack[1].k = "flush"
    /\ Len(stack) = 1
    /\ Top.pc = "loop"
    /\ index < Len(queue)

\* C3: within one flush the watcher run next has the smallest id among the
\* watchers of the queue not yet processed in that flush, those enqueued
\* while the flush is running included.
C3_SmallestIdNext ==
    FlushPicks => \A j \in (index + 2)..Len(queue) : queue[index + 1] < queue[j]

\* C3 witness: watchers 1, 2, 3 have run in this order, watcher 3 has enqueued
\* watcher 2 again, and watcher 2 has been run again after it.
C3_Witness ==
    /\ flushing
    /\ stack # <<>>
    /\ stack[1].k = "flush"
    /\ stack[1].start = {1, 2, 3}
    /\ queue = <<1, 2, 3, 2>>
    /\ index = 3
    /\ stack[1].pc = "ran"

\* flushSchedulerQueue is about to be left: the loop has ended, the guard
\* has broken out of it, or an exception leaves it.
FlushEnds ==
    /\ stack # <<>>
    /\ Top.k = "flush"
    /\ Top.pc = "loop" /\ index >= Len(queue)
FlushBreaks ==
    /\ stack # <<>>
    /\ Top.k = "flush"
    /\ Top.pc = "break"
FlushThrows ==
    /\ stack # <<>>
    /\ Top.k = "flush"
    /\ exc
FlushLeaves == FlushEnds \/ FlushBreaks \/ FlushThrows

\* C4 as stated: a deferred watcher whose update() was called once or more
\* since the last flush is in the queue exactly once, and the next flush
\* invokes its run() exactly once unless it is enqueued again during it.
C4_Original ==
    /\ ~flushing =>
           \A w \in 1..uid : Count(queue, w) = IF updates[w] >= 1 THEN 1 ELSE 0
    /\ FlushLeaves =>
           \A w \in stack[1].start : Count(queue, w) = 1 => flushRuns[w] = 1

\* C4, restricted: the same for a flush whose loop reaches the end of the
\* queue; in every flush run() is invoked at most once per queue entry.
C4_Restricted ==
    /\ ~flushing =>
           \A w \in 1..uid : Count(queue, w) = IF updates[w] >= 1 THEN 1 ELSE 0
    /\ FlushEnds =>
           \A w \in stack[1].start : Count(queue, w) = 1 => flushRuns[w] = 1
    /\ flushing => \A w \in 1..uid : flushRuns[w] <= Count(queue, w)

\* C5 as stated: in one flush no watcher's run() is invoked more than
\* MAX_UPDATE_COUNT times.
C5_Original == \A w \in 1..uid : flushRuns[w] <= MAX_UPDATE_COUNT

\* C6 as stated: the flush loop ends after a bounded number of runs; with the
\* guard breaking out when a watcher has run MAX_UPDATE_COUNT + 1 times, that
\* is at most MAX_UPDATE_COUNT + 1 runs per watcher.
C6_Original == flushing => index <= (MAX_UPDATE_COUNT + 1) * uid

\* The scheduler state as resetSchedulerState leaves it.
SchedulerReset ==
    /\ queue = <<>>
    /\ has = {}
    /\ circular = [w \in Watchers |-> 0]
    /\ ~waiting
    /\ ~flushing
    /\ index = 0

\* C7: when the guard has aborted a flush the scheduler state is fully reset;
\* afterwards the first queueWatcher call hands a flush to nextTick, and a
\* flush that reaches the end of its queue has run every watcher that was
\* in the queue when it began.
C7_ResetAfterAbort ==
    [][/\ FlushBreaks => SchedulerReset'
       /\ (aborted /\ ~flushing /\ has = {} /\ has' # {}) =>
              (waiting' /\ ticks' = ticks + 1 /\ ticks = 0)
       /\ (aborted /\ FlushEnds) => \A w \in stack[1].start : flushRuns[w] >= 1]_vars

\* C7 witness: after an aborted flush a later flush runs a watcher's callback.
C7_Witness ==
    /\ aborted
    /\ Len(stack) = 2
    /\ stack[1].k = "flush"
    /\ stack[2].k = "cb"
    /\ flushing

\* C8 as stated: no enqueued update is dropped.  A watcher leaves has only
\* by being run, and while a watcher is enqueued and nothing is running a
\* flush is pending at the host.
C8_Original ==
    [][/\ \A w \in has \ has' : flushRuns'[w] = flushRuns[w] + 1
       /\ (stack' = <<>> /\ ~exc' /\ has' # {}) => ticks' > 0]_vars

\* C9 as stated: a watcher that has been torn down is in no Dep's subscriber
\* list, wherever teardown() was called from.
C9_Original ==
    \A w \in 1..uid : ~watchers[w].active => \A d \in Deps : w \notin SubsOf(d)

RunEntersGet(w) ==
    /\ Len(stack') = Len(stack) + 1
    /\ stack'[Len(stack')].k = "get"
    /\ stack'[Len(stack')].w = w
    /\ stack'[Len(stack')].from = "run"

HostStep(name, o) ==
    hostOp'.n = hostOp.n + 1 /\ hostOp'.name = name /\ hostOp'.o = o

\* The heap without the counts and the history observe() keeps.
Shape(h) ==
    [o \in Objs |-> [h[o] EXCEPT !.vmCount = 0, !.first = "", !.anyOn = FALSE]]

\* C13: observe() on a value that already has an Observer returns that very
\* Observer, whatever asRootData and shouldObserve are; it creates no
\* Observer and no Dep and installs no accessor, so any two calls on the
\* value return the same Observer.
C13_ObserveIdempotent ==
    [][\A o \in Objs :
          HostStep("observe", o) /\ heap[o].ob # 0
              => /\ hostOp'.ob = heap[o].ob
                 /\ depUid' = depUid
                 /\ Shape(heap') = Shape(heap)]_allVars

\* observe(o, true) has been called twice on an observed object, the second
\* time with shouldObserve off.
C13_Witness ==
    /\ hostOp.name = "observe"
    /\ heap[hostOp.o].vmCount = 2
    /\ hostOp.ob = heap[hostOp.o].ob
    /\ heap[hostOp.o].first = "on"
    /\ ~heap[hostOp.o].anyOn = shouldObserve

Observable(o) == heap[o].kind \in {"plain", "array"} /\ heap[o].ext

\* C14, as stated: a value has an Observer iff it is a plain object or an
\* array, is extensible, is not a VNode, and shouldObserve was true at the
\* first observe() call on it.
C14_Original ==
    \A o \in Objs : heap[o].ob # 0 <=> (Observable(o) /\ heap[o].first = "on")

\* C14, amended: a value has an Observer iff it is a plain object or an
\* array, is extensible, is not a VNode and not a Vue instance, the
\* environment is not server rendering, and shouldObserve was true at some
\* observe() call on it.
C14_ObserverIff ==
    \A o \in Objs :
        heap[o].ob # 0 <=>
            (Observable(o) /\ ~heap[o].vue /\ ~serverRendering /\ heap[o].anyOn)

\* An object first observed with shouldObserve off has an Observer.
C14_Witness == \E o \in Objs : heap[o].first = "off" /\ heap[o].ob # 0

\* newVal === value || (newVal !== newVal && value !== value)
SameValue(a, b) == StrictEq(a, b) \/ (a.t = "nan" /\ b.t = "nan")

\* The watchers the host operation just done calls update() on, in order.
Notified == IF stack = <<>> THEN <<>> ELSE stack[1].subs

\* C12: an assignment to a reactive property of a value strictly equal to
\* its current value, or of NaN when the current value is NaN, calls notify()
\* on no Dep, does not observe the value, leaves the stored value (and the
\* whole heap) as it is and enqueues no watcher.
C12_SameValueNoEffect ==
    [][\A o \in Objs, k \in Keys :
          /\ HostStep("assign", o)
          /\ hostOp'.k = k
          /\ heap[o].dep[k] # 0
          /\ SameValue(hostOp'.v, heap[o].val[k])
          => /\ hostOp'.ntf = <<>>
             /\ heap' = heap
             /\ depUid' = depUid
             /\ stack' = <<>>
             /\ queue' = queue /\ has' = has /\ ticks' = ticks]_allVars

\* NaN has been assigned to the reactive property 1 of object 2, which holds
\* NaN and has a subscriber; and an object that has no Observer has been
\* assigned again, with shouldObserve on, to the property that holds it.
C12_Witness ==
    /\ hostOp.name = "assign"
    /\ hostOp.ntf = <<>>
    /\ heap[hostOp.o].dep[hostOp.k] # 0
    /\ subs[heap[hostOp.o].dep[hostOp.k]] # <<>>
    /\ \/ hostOp.v = NaN /\ heap[hostOp.o].val[hostOp.k] = NaN
       \/ /\ hostOp.v = Ref(3) /\ heap[hostOp.o].val[hostOp.k] = Ref(3)
          /\ heap[3].ob = 0 /\ ~heap[3].vue /\ shouldObserve

\* The watchers subscribed to property k of o or, when o has no such
\* reactive property, to the Observer of o.
SubscribedTo(o, k) ==
    IF heap[o].dep[k] # 0 THEN subs[heap[o].dep[k]]
    ELSE IF heap[o].ob # 0 THEN subs[heap[o].ob]
    ELSE <<>>

SetIgnored(o, k) ==
    k \notin heap[o].keys /\ (heap[o].vue \/ (heap[o].ob # 0 /\ heap[o].vmCount > 0))

InsertedObserved(items) ==
    \A i \in DOMAIN items :
        isObject(items[i]) /\ Observable(items[i].v) /\ ~heap[items[i].v].vue
            => heap'[items[i].v].ob # 0

\* What the method inserts.
Inserted(method, args) ==
    IF method \in {"push", "unshift", "splice"} THEN args.items ELSE <<>>

\* C16: a call of an intercepted mutator on an observed array does what the
\* original method does, observes what it inserts and calls notify() on the
\* Dep of the array's Observer exactly once, so update() is called once on
\* each of its subscribers; after splice(i, 1, x), arr[i] is x; set(arr, i,
\* x) extends the array to length i when it is shorter and then does
\* splice(i, 1, x).
C16_MutatorNotifiesOnce ==
    [][\A m \in methodsToPatch :
          /\ HostStep(m, 2) /\ heap[2].ob # 0
             => /\ heap'[2].elems = original(m, heap[2].elems, hostOp'.args)
                /\ InsertedObserved(Inserted(m, hostOp'.args))
                /\ hostOp'.ntf = <<heap[2].ob>>
                /\ Notified' = subs[heap[2].ob]
                /\ m = "splice" /\ hostOp'.args.dc = 1 /\ Len(hostOp'.args.items) = 1
                       /\ hostOp'.args.start < Len(heap[2].elems)
                       => heap'[2].elems[hostOp'.args.start + 1] = hostOp'.args.items[1]
          /\ HostStep("set", 2)
             => /\ Len(heap'[2].elems) = Max(Len(heap[2].elems), hostOp'.k + 1)
                /\ heap'[2].elems[hostOp'.k + 1] = hostOp'.v
                /\ \A j \in DOMAIN heap'[2].elems :
                       j # hostOp'.k + 1 =>
                          heap'[2].elems[j] = IF j \in DOMAIN heap[2].elems
                                              THEN heap[2].elems[j]
                                              ELSE Undef
                /\ InsertedObserved(<<hostOp'.v>>)
                /\ hostOp'.ntf = <<heap[2].ob>>
                /\ Notified' = subs[heap[2].ob]]_allVars

\* splice(0, 1, object 3) has put object 3, now observed, at index 0 and
\* update() is being called on the watcher subscribed to the array.
C16_Witness ==
    /\ hostOp.name = "splice"
    /\ hostOp.args = Args(0, 1, <<Ref(3)>>)
    /\ heap[2].elems[1] = Ref(3)
    /\ heap[3].ob # 0
    /\ stack # <<>> /\ Top.k = "notify" /\ Top.subs = <<1>>

\* C17: arr[i] = x on an observed array calls notify() on no Dep and
\* enqueues no watcher; no callback is called.
C17_IndexAssignSilent ==
    [][\A i \in 0..(MaxLen - 1) :
          HostStep("index", 2) /\ hostOp'.k = i
          => /\ heap'[2].elems[i + 1] = hostOp'.v
             /\ hostOp'.ntf = <<>>
             /\ stack' = <<>>
             /\ queue' = queue /\ has' = has /\ ticks' = ticks
             /\ trace' = trace]_allVars

\* arr[0] = 99 has been done on the observed array, to which a watcher is
\* subscribed, and nothing is queued.
C17_Witness ==
    /\ hostOp.name = "index"
    /\ hostOp.k = 0
    /\ heap[2].elems[1] = Num(99)
    /\ subs[heap[2].ob] = <<1>>
    /\ queue = <<>> /\ stack = <<>> /\ ticks = 0

\* The events recorded since the last operation of the host program.
EventsSince(ev) == {i \in DOMAIN trace : i > hostOp.at /\ trace[i].ev = ev}

\* A watcher on the length of the array has seen length 4, set(arr, 0, 99)
\* has been called on [1, 2, 3, 4] and what it queued has been flushed.
AfterSetAndFlush ==
    /\ uid = 1
    /\ expr[1].e \in {"len", "lenOf"}
    /\ value[1] = Num(4)
    /\ \E i \in 1..hostOp.at : trace[i] = GetEv(1, Num(4))
    /\ hostOp.name = "set" /\ hostOp.o = 2 /\ hostOp.k = 0 /\ hostOp.v = Num(99)
    /\ heap[2].elems = <<Num(99), Num(2), Num(3), Num(4)>>
    /\ stack = <<>> /\ ticks = 0 /\ ~exc

\* The callback of the watcher was called with (4, 3) after push(4).
SeenPush == \E i \in 1..hostOp.at : trace[i] = CbEv(1, Num(4), Num(3))

IsGet(e) == e.ev = "get"
IsCb(e) == e.ev = "cb"

\* The values get() has returned and the calls of the callbacks, in order.
Evaluations == SelectSeq(trace, IsGet)
Callbacks == SelectSeq(trace, IsCb)

\* The watcher on o.flag ? o.a : o.b is the only one and nothing runs.
CondWatcher == uid = 1 /\ expr[1].e = "cond" /\ stack = <<>>

\* The Deps of the properties the conditional reads on the present heap.
BranchDeps ==
    {heap[1].dep[1], IF Truthy(heap[1].val[1]) THEN heap[1].dep[2] ELSE heap[1].dep[3]}

\* The evaluation before the one recorded at trace[i].
PrevGet(i) == IF trace[i - 1].ev = "get" THEN trace[i - 1] ELSE trace[i - 2]

\* C11: stale subscriptions are pruned on re-evaluation.  Once the watcher
\* on o.flag ? o.a : o.b is up to date it is subscribed to exactly flag and
\* the branch read (a while flag is true, b after flag = false); a write to
\* the other branch calls update() on nobody, a write that changes flag or
\* the branch read calls update() on the watcher; and a run of the watcher
\* calls the callback, once, exactly when the value changed.
C11_StalePruned ==
    /\ [](CondWatcher /\ 1 \notin has
            => /\ DepsOf(1) = BranchDeps
               /\ \A d \in ObsDeps : 1 \in SeqToSet(subs[d]) <=> d \in BranchDeps)
    /\ [](CondWatcher
            => \A i \in DOMAIN trace :
                  i > 1 /\ trace[i].ev = "get"
                  => IF trace[i].new # PrevGet(i).new
                     THEN /\ i < Len(trace)
                          /\ trace[i + 1] = CbEv(1, trace[i].new, PrevGet(i).new)
                     ELSE i = Len(trace) \/ trace[i + 1].ev = "get")
    /\ [][\A k \in Keys :
             CondWatcher /\ 1 \notin has /\ HostStep("assign", 1) /\ hostOp'.k = k
             => Notified' =
                   IF heap[1].dep[k] \in BranchDeps
                      /\ ~SameValue(hostOp'.v, heap[1].val[k])
                   THEN <<1>>
                   ELSE <<>>]_allVars

\* The scenario has been played: after b = 2 (no run), flag = false (callback
\* (2, 1)), a = 99 (no run) and b = 3 (callback (3, 2)) the watcher is
\* subscribed to flag and b.
C11_Witness ==
    /\ CondWatcher
    /\ hostOp.n = 4
    /\ heap[1].val = [NoVals EXCEPT ![1] = Bool(FALSE), ![2] = Num(99), ![3] = Num(3)]
    /\ trace = <<GetEv(1, Num(1)), GetEv(1, Num(2)), CbEv(1, Num(2), Num(1)),
                 GetEv(1, Num(3)), CbEv(1, Num(3), Num(2))>>
    /\ DepsOf(1) = {heap[1].dep[1], heap[1].dep[3]}
    /\ subs[heap[1].dep[2]] = <<>>

\* The watcher on r.a + r.b is the only one and nothing runs.
AddWatcher == uid = 1 /\ expr[1].e = "add" /\ stack = <<>>

\* The scenario: the watcher was created on {a: 1, b: 2}; a = 10 and a
\* flush; b = 20 and a = 30 and one flush.
AddScenario ==
    /\ AddWatcher
    /\ hostOp.n = 3
    /\ ticks = 0
    /\ Evaluations = <<GetEv(1, Num(3)), GetEv(1, Num(12)), GetEv(1, Num(50))>>

\* C19, as stated: at the end of the scenario the trace of the callback is
\* [[12, 3], [50, 3]].
C19_Original ==
    AddScenario => Callbacks = <<CbEv(1, Num(12), Num(3)), CbEv(1, Num(50), Num(3))>>

\* C19, amended: at the end of the scenario the trace of the callback is
\* [[12, 3], [50, 12]]: the two assignments before the second flush give one
\* callback, whose old value is the value of the run before; and in general
\* the old value of a callback is what the evaluation before returned.
C19_OldIsPreviousValue ==
    /\ AddScenario
          => Callbacks = <<CbEv(1, Num(12), Num(3)), CbEv(1, Num(50), Num(12))>>
    /\ AddWatcher
          => \A i \in DOMAIN trace :
                trace[i].ev = "cb"
                => /\ trace[i - 1] = GetEv(1, trace[i].new)
                   /\ trace[i].old = PrevGet(i - 1).new
                   /\ trace[i].old # trace[i].new

C19_Witness ==
    /\ AddScenario
    /\ heap[1].val[1] = Num(30) /\ heap[1].val[2] = Num(20)
    /\ Len(Callbacks) = 2

\* The lazy watcher L (1) on r.x * 2 and the watcher E (2) on the computed
\* property of L plus r.y have been constructed and nothing runs.
LazyPair == uid = 2 /\ expr[2].e = "cplus" /\ stack = <<>>

\* The last operation of the host program, done after E was constructed,
\* has changed r.x.
WroteX ==
    /\ hostOp.name = "assign" /\ hostOp.k = 1 /\ hostOp.ntf # <<>>
    /\ \E i \in 1..hostOp.at : trace[i].ev = "get" /\ trace[i].w = 2

GetsSince(w) == {i \in EventsSince("get") : trace[i].w = w}

\* C20: E is subscribed to the Dep of r.x, after L, through L.depend(); a
\* write to r.x marks L dirty and puts E, and only E, in the queue; the flush
\* that follows runs E once and evaluates the getter of L exactly once.
C20_LazyChain ==
    LazyPair
        => /\ DepsOf(2) = {heap[1].dep[1], heap[1].dep[2]}
           /\ subs[heap[1].dep[1]] = <<1, 2>>
           /\ subs[heap[1].dep[2]] = <<2>>
           /\ WroteX /\ ticks = 1
                 => /\ watchers[1].dirty
                    /\ queue = <<2>>
                    /\ EventsSince("get") = {}
           /\ WroteX /\ ticks = 0
                 => /\ Cardinality(GetsSince(1)) = 1
                    /\ Cardinality(GetsSince(2)) = 1
                    /\ ~watchers[1].dirty
                    /\ value[1] = Twice(heap[1].val[1])
                    /\ value[2] = Plus(value[1], heap[1].val[2])

\* r.x = 10 has been written once and flushed: L has been evaluated again
\* and E has run, with 20 + 2.
C20_Witness ==
    /\ LazyPair
    /\ WroteX
    /\ hostOp.n = 1
    /\ ticks = 0
    /\ value[1] = Num(20)
    /\ trace = <<GetEv(1, Num(2)), GetEv(2, Num(4)),
                 GetEv(1, Num(20)), GetEv(2, Num(22)), CbEv(2, Num(22), Num(4))>>

\* The loop of Dep.notify calls update() on watcher w in this step.
UpdateCalled(w) ==
    /\ ~exc
    /\ stack # <<>>
    /\ Top.k = "notify"
    /\ Top.i <= Len(Top.subs)
    /\ Top.subs[Top.i] = w
    /\ stack' # stack

Deferred(w) == ~watchers[w].lazy /\ ~watchers[w].sync

\* Frame j of the call stack belongs to run() of watcher w: its get() or its
\* callback.
RunFrame(j, w) ==
    /\ stack[j].w = w
    /\ stack[j].k = "cb" \/ (stack[j].k = "get" /\ stack[j].from = "run")

HasFlushFrame(st) == \E j \in DOMAIN st : st[j].k = "flush"

\* C21: queueWatcher does not run anything before it returns: update() of a
\* deferred watcher pushes no frame and counts no run, and hands one flush
\* to nextTick when none is waiting; run() of a deferred watcher is only
\* ever called by the loop of flushSchedulerQueue, and flushSchedulerQueue
\* only starts from the top level, taking one callback handed to nextTick.
C21_NoInlineRun ==
    /\ [][\A w \in Watchers :
             UpdateCalled(w) /\ Deferred(w)
             => /\ Len(stack') = Len(stack)
                /\ flushRuns' = flushRuns
                /\ UNCHANGED <<watchers, targetStack, target, flushing>>
                /\ ticks' = IF w \notin has /\ ~waiting THEN ticks + 1 ELSE ticks]_vars
    /\ [](\A j \in DOMAIN stack : \A w \in 1..uid :
             RunFrame(j, w) /\ Deferred(w)
             => j > 1 /\ stack[j - 1].k = "flush" /\ stack[j - 1].pc = "ran")
    /\ [][HasFlushFrame(stack') /\ ~HasFlushFrame(stack)
             => stack = <<>> /\ ticks > 0 /\ ticks' = ticks - 1]_vars

\* update() has put a deferred watcher in the queue from inside a callback
\* that the flush is running, and no frame of that watcher is on the stack.
C21_Witness ==
    \E w \in 1..uid :
        /\ Deferred(w)
        /\ w \in has
        /\ flushing
        /\ Len(stack) = 3
        /\ stack[2].k = "cb" /\ stack[2].w # w
        /\ stack[3].k = "notify" /\ stack[3].i = 2 /\ stack[3].subs[1] = w
        /\ \A j \in DOMAIN stack : stack[j].w # w

\* C22: update() of a lazy watcher only sets dirty; update() of a sync
\* watcher that is not lazy calls run() at once (get() is entered, above the
\* frame of Dep.notify, unless the watcher is inactive) and queues nothing;
\* update() of any other watcher only puts it in the queue.  A lazy watcher
\* is never in the queue, and the callback of a sync watcher runs right
\* above a frame of Dep.notify.
C22_UpdateDispatch ==
    /\ [][\A w \in Watchers :
             UpdateCalled(w)
             => IF watchers[w].lazy
                THEN /\ watchers' = [watchers EXCEPT ![w].dirty = TRUE]
                     /\ Len(stack') = Len(stack)
                     /\ UNCHANGED <<queue, has, waiting, ticks, targetStack, target>>
                ELSE IF watchers[w].sync
                THEN /\ UNCHANGED <<watchers, queue, has, waiting, ticks>>
                     /\ IF watchers[w].active
                        THEN /\ Len(stack') = Len(stack) + 1
                             /\ stack'[Len(stack')].k = "get"
                             /\ stack'[Len(stack')].w = w
                             /\ stack'[Len(stack')].from = "run"
                             /\ stack'[Len(stack)].k = "notify"
                             /\ target' = w
                        ELSE Len(stack') = Len(stack)
                ELSE /\ w \in has'
                     /\ Count(queue', w) >= 1
                     /\ w \notin has => queue' # queue
                     /\ Len(stack') = Len(stack)
                     /\ UNCHANGED <<watchers, targetStack, target>>]_vars
    /\ [](\A w \in SeqToSet(queue) : ~watchers[w].lazy)
    /\ [](\A j \in DOMAIN stack : \A w \in 1..uid :
             RunFrame(j, w) /\ watchers[w].sync /\ ~watchers[w].lazy
             => j > 1 /\ stack[j - 1].k = "notify")

\* The callback of a sync watcher is running inside Dep.notify, which was
\* called by a write at the top level, and nothing is queued; and a lazy
\* watcher is dirty again.
C22_Witness ==
    /\ Len(stack) = 2
    /\ stack[1].k = "notify"
    /\ stack[2].k = "cb"
    /\ watchers[stack[2].w].sync
    /\ queue = <<>> /\ ticks = 0
    /\ \E w \in 1..uid : watchers[w].lazy /\ watchers[w].dirty /\ watchers[w].deps # <<>>

\* The callback of a user watcher, called by run() from the loop of the
\* flush, has thrown.
UserCbThrew ==
    /\ exc
    /\ Len(stack) = 2
    /\ stack[1].k = "flush"
    /\ Top.k = "cb"
    /\ watchers[Top.w].user

\* C23: an exception thrown by the callback of a user watcher during a flush
\* stops at run(): the flush is where a callback that returned would have
\* left it (same queue, index and has, nothing pending thrown), so the loop
\* goes on with the following entries.  The loop runs the entries of the
\* queue in order, one index at a time, a flush that reaches the end of the
\* queue has run every entry, and a flush that returns resets the state of
\* the scheduler.
C23_UserCallbackThrows ==
    /\ [][UserCbThrew
             => /\ exc' = FALSE
                /\ stack' = Rest
                /\ stack'[1].pc = "ran"
                /\ UNCHANGED <<schedVars, depVars, tgtVars, flushRuns>>]_vars
    /\ [][flushing /\ flushing'
             => /\ index' \in {index, index + 1}
                /\ flushRuns' # flushRuns
                   => /\ index' = index
                      /\ flushRuns' = [flushRuns EXCEPT ![queue[index + 1]] = @ + 1]]_vars
    /\ [](FlushEnds => \A i \in 1..Len(queue) : flushRuns[queue[i]] >= 1)
    /\ [][Len(stack) = 1 /\ stack[1].k = "flush" /\ ~exc /\ stack' = <<>>
             => /\ queue' = <<>>
                /\ has' = {}
                /\ index' = 0
                /\ ~waiting' /\ ~flushing'
                /\ \A w \in Watchers : circular'[w] = 0]_vars

\* The callback of the first watcher of a queue of two has thrown.
C23_Witness ==
    /\ UserCbThrew
    /\ index = 0
    /\ Len(queue) = 2
    /\ flushRuns[queue[2]] = 0

\* The watchers of the activations of get() on the call stack, bottom first.
RECURSIVE GetWatchers(_)
GetWatchers(st) ==
    IF st = <<>> THEN <<>>
    ELSE LET r == GetWatchers(SubSeq(st, 1, Len(st) - 1))
         IN  IF st[Len(st)].k = "get" THEN Append(r, st[Len(st)].w) ELSE r

\* An exception thrown by the getter leaves get(), the frame on top.
GetThrows == exc /\ stack # <<>> /\ Top.k = "get"

\* C24: the target stack holds the watchers of the running activations of
\* get() and nothing else, so it is what it was before a call once that call
\* is over.  When the getter throws, get() still pops its target and runs
\* cleanupDeps (newDeps and newDepIds empty, deps what newDeps was); a user
\* watcher goes on with undefined as the value get() returned, the exception
\* gone; a watcher of the framework leaves the exception to the caller of
\* get() and stores nothing.
C24_GetterThrows ==
    /\ [](targetStack = GetWatchers(stack))
    /\ [][GetThrows
             => LET w == Top.w
                IN  /\ targetStack' = SubSeq(targetStack, 1, Len(targetStack) - 1)
                    /\ targetStack' = GetWatchers(Rest)
                    /\ target' = IF targetStack' = <<>> THEN 0
                                 ELSE targetStack'[Len(targetStack')]
                    /\ watchers'[w].newDeps = <<>>
                    /\ watchers'[w].newDepIds = {}
                    /\ watchers'[w].deps = watchers[w].newDeps
                    /\ watchers'[w].depIds = watchers[w].newDepIds
                    /\ \A d \in ObsDeps : Count(subs'[d], w) =
                           IF d \in watchers[w].newDepIds THEN 1 ELSE 0
                    /\ IF watchers[w].user
                       THEN /\ exc' = FALSE
                            /\ Len(trace') > Len(trace)
                            /\ trace'[Len(trace) + 1] = GetEv(w, Undef)
                            /\ Top.from # "run" => value'[w] = Undef
                            /\ Top.from = "run" =>
                                  IF value[w] = Undef
                                  THEN stack' = Rest /\ value' = value
                                  ELSE /\ stack' = Append(Rest, CbFrame(w))
                                       /\ value'[w] = Undef
                                       /\ trace'[Len(trace')] = CbEv(w, Undef, value[w])
                       ELSE /\ exc' = TRUE
                            /\ stack' = Rest
                            /\ UNCHANGED <<value, trace>>
                            /\ watchers'[w].dirty = watchers[w].dirty]_allVars

\* The getter of a computed property throws while the getter of a user
\* watcher is reading it, in a run() of the flush.
C24_Witness ==
    /\ GetThrows
    /\ Len(stack) = 3
    /\ stack[1].k = "flush"
    /\ stack[2].k = "get" /\ watchers[stack[2].w].user /\ stack[2].from = "run"
    /\ ~watchers[Top.w].user /\ Top.from = "evaluate"
    /\ watchers[Top.w].newDeps # <<>>
    /\ value[stack[2].w] = Num(3)

\* evaluate() of w returns in this step: its get() is the frame on top and
\* the getter has returned, or has thrown and get() has caught it.
EvaluateReturns(w) ==
    /\ stack # <<>>
    /\ Top.k = "get" /\ Top.w = w /\ Top.from = "evaluate"
    /\ ~exc \/ watchers[w].user
    /\ Len(stack') < Len(stack)

\* C25: the constructor of a lazy watcher does not enter get(): nothing is
\* pushed, the value is undefined and dirty is true.  get() of a lazy
\* watcher is only ever entered by evaluate(); dirty goes from true to false
\* only in a step in which evaluate() returns, and the value only changes
\* there; update() leaves dirty true whatever it was.
C25_LazyWatcher ==
    /\ [][uid' = uid + 1 /\ watchers'[uid'].lazy
             => /\ stack' = stack
                /\ UNCHANGED <<targetStack, target, trace, value, subs>>
                /\ value[uid'] = Undef
                /\ watchers'[uid'].dirty
                /\ watchers'[uid'].deps = <<>>]_allVars
    /\ [](\A j \in DOMAIN stack :
             stack[j].k = "get" /\ watchers[stack[j].w].lazy => stack[j].from = "evaluate")
    /\ [](\A j \in DOMAIN stack : stack[j].k = "cb" => ~watchers[stack[j].w].lazy)
    /\ [][\A w \in 1..uid :
             watchers[w].lazy
             => /\ watchers[w].dirty /\ ~watchers'[w].dirty => EvaluateReturns(w)
                /\ value'[w] # value[w] => EvaluateReturns(w)
                /\ EvaluateReturns(w)
                   => /\ ~watchers'[w].dirty
                      /\ value'[w] = IF exc THEN Undef ELSE Val(expr[w])
                /\ UpdateCalled(w) => watchers'[w].dirty]_allVars

\* A computed property that has been evaluated is dirty again, with the
\* value of the evaluation still cached.
C25_Witness ==
    \E w \in 1..uid :
        /\ watchers[w].lazy
        /\ watchers[w].dirty
        /\ value[w] = Num(1)
        /\ PropVal(PropId(1, 1)) = Num(5)
        /\ stack = <<>>

\* C26: set(target, key, val) with a key that target does not have, on a Vue
\* instance or on an observed object with vmCount > 0, adds no property
\* (the heap and the Deps are what they were), calls notify() on no Dep, so
\* no update() is called and nothing is queued, and returns val.
C26_SetOnRootRejected ==
    [][\A o \in Objs, k \in Keys :
          HostStep("set", o) /\ hostOp'.k = k /\ SetIgnored(o, k)
          => /\ k \notin heap'[o].keys
             /\ heap'[o].dep[k] = 0
             /\ heap' = heap
             /\ depUid' = depUid
             /\ hostOp'.ntf = <<>>
             /\ stack' = <<>>
             /\ UNCHANGED <<watchers, subs, queue, has, waiting, ticks>>
             /\ hostOp'.ret = hostOp'.v]_allVars

\* set(data, 3, NaN) has been called on root data that two watchers read, and
\* has returned NaN.
C26_Witness ==
    /\ hostOp.name = "set"
    /\ hostOp.o = 1 /\ hostOp.k = 3
    /\ heap[1].vmCount > 0
    /\ 3 \notin heap[1].keys
    /\ hostOp.ret = NaN
    /\ subs[heap[1].dep[1]] = <<1, 2>>
    /\ stack = <<>>

\* del(r, k) does nothing: r is a Vue instance or root data, or has no key k.
DelIgnored(o, k) ==
    \/ heap[o].vue
    \/ heap[o].ob # 0 /\ heap[o].vmCount > 0
    \/ k \notin heap[o].keys

\* C27: del(r, k) on a record that is not a Vue instance nor root data and
\* has the key k deletes k and nothing else, and, when r has an Observer,
\* calls notify() once on the Dep of that Observer and on no other Dep, so
\* update() is called once on each of its subscribers; in the other cases
\* the heap is left as it is, notify() is called on no Dep and nothing is
\* queued.
C27_DelNotifiesOnce ==
    [][\A o \in Objs, k \in Keys :
          HostStep("del", o) /\ hostOp'.k = k
          => IF DelIgnored(o, k)
             THEN /\ heap' = heap
                  /\ hostOp'.ntf = <<>>
                  /\ stack' = <<>>
                  /\ UNCHANGED <<watchers, subs, queue, has, waiting, ticks>>
             ELSE /\ heap'[o].keys = heap[o].keys \ {k}
                  /\ heap'[o].val[k] = Undef
                  /\ heap'[o].dep[k] = 0
                  /\ \A j \in Keys \ {k} :
                        /\ heap'[o].val[j] = heap[o].val[j]
                        /\ heap'[o].dep[j] = heap[o].dep[j]
                  /\ \A q \in Objs \ {o} : heap'[q] = heap[q]
                  /\ heap'[o].ob = heap[o].ob
                  /\ hostOp'.ntf = IF heap[o].ob # 0 THEN <<heap[o].ob>> ELSE <<>>
                  /\ Notified' = IF heap[o].ob # 0 THEN subs[heap[o].ob] ELSE <<>>
                  /\ \A w \in Watchers : Count(Notified', w) <= 1
                  /\ UNCHANGED <<watchers, subs, queue, has>>]_allVars

\* del() has deleted a key that set() had added to the observed object 2,
\* and update() is being called on the two watchers subscribed to its
\* Observer.
C27_Witness ==
    /\ hostOp.name = "del"
    /\ hostOp.o = 2 /\ hostOp.k = 3
    /\ heap[2].keys = {1}
    /\ heap[2].ob # 0
    /\ hostOp.ntf = <<heap[2].ob>>
    /\ stack # <<>> /\ Top.k = "notify" /\ Top.i = 1
    /\ Top.subs = <<1, 2>>

\* The getter on top of the call stack reads the reactive property p in this
\* step.
GetterReads(p) ==
    /\ ~exc
    /\ InUser
    /\ Top.k = "get"
    /\ Top.n < Len(Fn(Top).ops)
    /\ Fn(Top).ops[Top.n + 1] = OpRead(p)
    /\ heap[ObjOf(p)].dep[KeyOf(p)] # 0
    /\ Len(stack') = Len(stack)
    /\ stack'[Len(stack)].n = Top.n + 1

\* Watcher w is subscribed to Dep d in the next state.
Subscribed(w, d) ==
    /\ Count(subs'[d], w) = 1
    /\ d \in watchers'[w].newDepIds \cup watchers'[w].depIds

\* The Observer's Dep of the value v, 0 when v has none.
ObserverOf(v) == IF isObject(v) THEN heap[v.v].ob ELSE 0

\* C28, as stated: a read of the reactive property r.k with W the current
\* target subscribes W to the Dep of the property and, whenever the value
\* r.k holds has an Observer, to the Dep of that Observer; a read with no
\* current target changes no subscription.
C28_Original ==
    /\ [][\A p \in Props :
             GetterReads(p)
             => /\ target # 0
                /\ Subscribed(target, heap[ObjOf(p)].dep[KeyOf(p)])
                /\ ObserverOf(PropVal(p)) # 0
                   => Subscribed(target, ObserverOf(PropVal(p)))]_allVars
    /\ [][hostOp'.n = hostOp.n + 1 /\ hostOp'.name = "read"
             => target = 0 /\ UNCHANGED <<watchers, subs>>]_allVars

\* What holds of the code: the read subscribes W to the Dep of the property
\* and to the Dep of the Observer that observe() returned when the value
\* was stored, by defineReactive or by the setter, and to no other Dep of a
\* record.
C28_WhenObservedAtStore ==
    /\ [][\A p \in Props :
             GetterReads(p)
             => LET c == heap[ObjOf(p)].childOb[KeyOf(p)]
                IN  /\ target # 0
                    /\ Subscribed(target, heap[ObjOf(p)].dep[KeyOf(p)])
                    /\ c # 0 => /\ PropVal(p) = Ref(c)
                                /\ Subscribed(target, heap[c].ob)
                    /\ c = 0 => \A d \in ObsDeps :
                                   d # heap[ObjOf(p)].dep[KeyOf(p)]
                                   => subs'[d] = subs[d]]_allVars
    /\ [][hostOp'.n = hostOp.n + 1 /\ hostOp'.name = "read"
             => target = 0 /\ UNCHANGED <<watchers, subs>>]_allVars

\* The value of r.1 was stored with shouldObserve off and observed later: a
\* watcher has read r.1 and is not subscribed to the Observer of the value.
C28_Witness ==
    /\ uid = 1
    /\ stack = <<>>
    /\ PropVal(PropId(1, 1)) = Ref(3)
    /\ heap[3].ob # 0
    /\ heap[1].childOb[1] = 0
    /\ watchers[1].deps = <<heap[1].dep[1]>>
    /\ subs[heap[3].ob] = <<>>

\* The objects among the elements of array a.
ElemsOf(a) ==
    {heap[a].elems[i].v : i \in {j \in DOMAIN heap[a].elems : isObject(heap[a].elems[j])}}

\* The arrays among the objects os.
ArraysIn(os) == {a \in os : heap[a].kind = "array"}

\* The objects n levels below the array a: its elements (n = 1), the
\* elements of the arrays among them (n = 2), and so on.
RECURSIVE LevelOf(_, _)
LevelOf(a, n) ==
    IF n = 1 THEN ElemsOf(a)
    ELSE UNION {ElemsOf(b) : b \in ArraysIn(LevelOf(a, n - 1))}

\* The Deps of the Observers of the objects os.
ObDeps(os) == {heap[e].ob : e \in {x \in os : heap[x].ob # 0}}

\* The getter reads the reactive property p, which holds an observed array.
ReadsArray(p) ==
    /\ GetterReads(p)
    /\ isObject(PropVal(p))
    /\ heap[PropVal(p).v].kind = "array"
    /\ heap[ObjOf(p)].childOb[KeyOf(p)] = PropVal(p).v

RECURSIVE TargetsOf(_)
TargetsOf(st) ==
    IF st = <<>> THEN <<>>
    ELSE LET r == TargetsOf(SubSeq(st, 1, Len(st) - 1))
             f == st[Len(st)]
         IN  IF f.k = "get" THEN Append(r, f.w)
             ELSE IF f.k = "data" THEN Append(r, 0)
             ELSE r

TopOf(ts) == IF ts = <<>> THEN 0 ELSE ts[Len(ts)]

\* Watcher w has been evaluated and is not being evaluated.
Evaluated(w) ==
    /\ \E i \in DOMAIN trace : trace[i].ev = "get" /\ trace[i].w = w
    /\ \A j \in DOMAIN stack : ~(stack[j].k = "get" /\ stack[j].w = w)

\* C30: Dep.target is the top of the target stack, no watcher when the stack
\* is empty or undefined is on top.  The target stack holds what the running
\* activations of get() and getData have pushed, so a push followed by its
\* pop leaves the stack and Dep.target as they were, nested or not: a push
\* adds the new target, a pop removes the top.  While getData runs data,
\* reads subscribe no watcher; the watcher that was the target before
\* collects again after the pop: the one that reads r[1], creates the
\* component and reads r[2] ends with the Deps of r[1] and r[2], whatever
\* data has read.
C30_TargetStack ==
    /\ [](target = TopOf(targetStack))
    /\ [](targetStack = TargetsOf(stack))
    /\ [][/\ Len(targetStack') > Len(targetStack)
             => targetStack' = Append(targetStack, target')
          /\ Len(targetStack') < Len(targetStack)
             => /\ targetStack' = SubSeq(targetStack, 1, Len(targetStack) - 1)
                /\ target' = TopOf(targetStack')]_allVars
    /\ [][stack # <<>> /\ Top.k = "data" /\ Len(stack') = Len(stack)
             => target = 0 /\ UNCHANGED <<watchers, subs>>]_allVars
    /\ [][stack # <<>> /\ Top.k = "data" /\ Len(stack') < Len(stack)
             => /\ UNCHANGED <<watchers, subs>>
                /\ target' = TopOf(TargetsOf(Rest))]_allVars
    /\ [](\A w \in 1..uid :
             expr[w].e = "withData" /\ Evaluated(w)
             => /\ SeqToSet(watchers[w].deps) = {heap[1].dep[1], heap[1].dep[2]}
                /\ Count(subs[heap[1].dep[3]], w) = 0)

\* In a run() of the flush the watcher has read r[1] and created the
\* component; data has read twice or read the computed property, and the
\* watcher has collected the Dep of r[1] only.
C30_Witness ==
    /\ Len(stack) = 3
    /\ stack[1].k = "flush"
    /\ stack[2].k = "get" /\ expr[stack[2].w].e = "withData"
    /\ Top.k = "data" /\ Top.n = 2
    /\ targetStack = <<stack[2].w, 0>>
    /\ target = 0
    /\ watchers[stack[2].w].newDepIds = {heap[1].dep[1]}
    /\ ~exc

\* C33: no watcher is twice in the subs of a Dep, whatever evaluations
\* (nested and re-entered ones too), calls of Watcher.depend() and teardowns
\* have happened.
C33_NoDuplicateSubs ==
    \A d \in DOMAIN subs : \A w \in Watchers : Count(subs[d], w) <= 1

\* Two watchers are subscribed to the property; one of them has been torn
\* down and is in subs all the same, and get() of the other has been
\* re-entered and is reading the property again.
C33_Witness ==
    /\ Len(subs[1]) = 2
    /\ \E w \in 1..uid : ~watchers[w].active /\ Count(subs[1], w) = 1
    /\ stack # <<>>
    /\ Top.k = "get" /\ Top.re
    /\ watchers[Top.w].active
    /\ 1 \in watchers[Top.w].newDepIds
    /\ 1 \in watchers[Top.w].depIds

\* Frame j of the call stack st is an activation of Dep.notify.
NotifyAt(st, j) == j \in DOMAIN st /\ st[j].k = "notify"

\* C31: every notify() walks a copy of subs taken when it starts (sorted by
\* id when config.async is false) from the first entry on, the copy stays
\* what it was whatever happens to subs meanwhile, every step of the walk
\* is the call of update() on the next entry, and notify() is not left
\* before update() has been called on the last one.
C31_Original ==
    [][/\ \A j \in DOMAIN stack' :
             NotifyAt(stack', j) /\ ~NotifyAt(stack, j)
             => /\ stack'[j].i = 1
                /\ \E d \in DOMAIN subs :
                      /\ subs[d] # <<>>
                      /\ stack'[j].subs = IF async THEN subs[d] ELSE SortById(subs[d])
       /\ \A j \in DOMAIN stack :
             NotifyAt(stack, j) /\ NotifyAt(stack', j)
             => /\ stack'[j].subs = stack[j].subs
                /\ \/ stack'[j].i = stack[j].i
                   \/ /\ stack'[j].i = stack[j].i + 1
                      /\ j = Len(stack)
                      /\ UpdateCalled(stack[j].subs[stack[j].i])
       /\ \A j \in DOMAIN stack :
             NotifyAt(stack, j) /\ ~NotifyAt(stack', j)
             => stack[j].i = Len(stack[j].subs) + 1]_allVars

\* Control is inside watcher.run() called by the loop of a flush (or has
\* just come back from it).
InsideRun == \E j \in DOMAIN stack : stack[j].k = "flush" /\ stack[j].pc = "ran"

\* The entries of the queue that no flush has processed: all of them when
\* not flushing, those behind index while flushing.
Unprocessed == SubSeq(queue, IF flushing THEN index + 2 ELSE 1, Len(queue))

\* C36: between flushes and inside run() during a flush, has holds exactly
\* the watchers among the unprocessed entries of the queue, and none of
\* them is there twice.
C36_HasIsUnprocessed ==
    ~HasFlushFrame(stack) \/ InsideRun
    => /\ has = SeqToSet(Unprocessed)
       /\ \A w \in Watchers : Count(Unprocessed, w) <= 1

\* Inside run() of the first entry, which has put itself in the queue
\* again: it is in the queue twice, once processed and once not, with
\* another watcher waiting behind.
C36_Witness ==
    /\ InsideRun
    /\ flushing /\ index = 0
    /\ Len(queue) = 3
    /\ queue[1] = queue[2]
    /\ has = {queue[2], queue[3]}
    /\ Top.k = "cb"

\* The activations of flushSchedulerQueue on the call stack st that have not
\* yet reset the state of the scheduler.
Draining(st) == {j \in DOMAIN st : st[j].k = "flush" /\ st[j].pc \in {"loop", "pre", "ran", "break"}}

\* C37: a flush waiting at nextTick and the flushes that are running are at
\* most one together; a flush is handed to nextTick, or started by
\* queueWatcher itself when config.async is false, only while waiting is
\* false, and waiting is true from then on; waiting only becomes false
\* again when a flush resets the state of the scheduler; flushing implies
\* waiting; and waiting is true whenever the queue is not empty.
C37_OneFlush ==
    /\ [](/\ ticks + Cardinality(Draining(stack)) <= 1
          /\ ticks > 0 => waiting /\ ~flushing
          /\ flushing => waiting
          /\ queue # <<>> => waiting)
    /\ [][/\ ticks' > ticks
             => ~waiting /\ waiting' /\ ticks' = ticks + 1 /\ async
          /\ Draining(stack') # {} /\ Draining(stack) = {}
             => /\ waiting' /\ flushing'
                /\ \/ ticks' = ticks - 1 /\ waiting /\ stack = <<>>
                   \/ ticks' = ticks /\ ~waiting /\ ~async
          /\ waiting /\ ~waiting'
             => /\ Draining(stack) # {} /\ Draining(stack') = {}
                /\ ~exc
                /\ queue' = <<>> /\ has' = {} /\ ~flushing' /\ index' = 0]_allVars

\* With config.async false a flush that queueWatcher started is running
\* inside Dep.notify; a write made by the watcher it runs has put a second
\* watcher in the queue, and no other flush was started or scheduled.
C37_Witness ==
    /\ ~async
    /\ \E j \in Draining(stack) : j > 1 /\ stack[j - 1].k = "notify" /\ j < Len(stack)
    /\ waiting /\ flushing /\ ticks = 0
    /\ Len(queue) = 2 /\ index = 0
    /\ queue[2] \in has

\* run() of watcher w calls the callback: get() has returned and the frame
\* of the callback takes its place.
RunCallsCb(w) ==
    /\ stack # <<>> /\ stack' # <<>>
    /\ Top.k = "get" /\ Top.from = "run"
    /\ Len(stack') = Len(stack)
    /\ stack'[Len(stack')].k = "cb"
    /\ stack'[Len(stack')].w = w

\* C34 as stated: for a watcher that has been torn down, run() neither
\* evaluates the getter nor calls the callback, also when teardown() was
\* called during its own evaluation inside run().
C34_Original ==
    [][\A w \in 1..uid :
           ~watchers[w].active => ~RunEntersGet(w) /\ ~RunCallsCb(w)]_vars

\* C35: traverse() terminates on every finite graph of values: _traverse
\* is never called on an object from inside an activation of _traverse on
\* the same object that began with the same seenObjects (such a call does
\* what the outer activation did and so calls itself again, without end).
C35_Original ==
    \A i, j \in DOMAIN trav :
        i < j => ~(trav[i].o = trav[j].o /\ trav[i].seen = trav[j].seen)

\* C40: whatever $emit calls are made, nested ones too, the wrapper that
\* $once registered calls its fn at most once.
C40_Original ==
    \A r \in 1..onceUid : invoked[r] <= 1

\* C38 as stated: for a lazy watcher whose getter only reads reactive
\* properties, whenever the computed property can be read (by the host
\* program at the top level, or by the user code that is running and has
\* this read as its next step) and dirty is false, the cached value is
\* what the getter returns on the present state; also after teardown().
C38_Original ==
    \A w \in 1..uid :
        watchers[w].lazy /\ MayDo(OpComputed(w)) /\ ~watchers[w].dirty
            => value[w] = Val(expr[w])

\* The step calls a hook of the given kind for watcher (or component) w.
CallsHook(kind, w) ==
    /\ Len(stack') = Len(stack) + 1
    /\ stack'[Len(stack')].k = "hook"
    /\ stack'[Len(stack')].from = kind
    /\ stack'[Len(stack')].w = w

\* The flush at the bottom of the call stack is past resetSchedulerState().
HookPhase(st) == st # <<>> /\ st[1].k = "flush" /\ st[1].pc \in {"activated", "updated"}

\* C32: in a flush the before hook of a watcher is called at the head of
\* its iteration, while has[id] is still set and before run(); run() is
\* called on queue[index] with has[id] cleared and, when the watcher has a
\* before hook, only after that hook was called in this iteration; the
\* copies activatedQueue and updatedQueue are taken from activatedChildren
\* and queue in the step that resets the scheduler, after the loop has
\* ended, and do not change afterwards; activated hooks are called on the
\* entries of activatedQueue in order, and updated hooks, on the entries of
\* updatedQueue from the last to the first, only after all of them.
C32_HookOrder ==
    [][/\ \A w \in Watchers :
             /\ CallsHook("before", w)
                   => /\ Top.k = "flush" /\ Top.pc = "loop"
                      /\ w = queue[index + 1]
                      /\ w \in has /\ has' = has
                      /\ flushRuns' = flushRuns
             /\ flushRuns'[w] = flushRuns[w] + 1
                   => /\ Top.k = "flush"
                      /\ w = queue[index + 1]
                      /\ w \notin has'
                      /\ Top.pc = IF w \in before THEN "pre" ELSE "loop"
             /\ CallsHook("activated", w)
                   => /\ Top.k = "flush" /\ Top.pc = "activated"
                      /\ Top.i < Len(activatedQueue)
                      /\ w = activatedQueue[Top.i + 1]
                      /\ stack'[Len(stack)].i = Top.i + 1
             /\ CallsHook("updated", w)
                   => /\ Top.k = "flush" /\ Top.pc = "updated"
                      /\ Top.i > 0
                      /\ w = updatedQueue[Top.i]
                      /\ stack'[Len(stack)].i = Top.i - 1
       /\ (stack # <<>> /\ stack' # <<>> /\ stack'[1].k = "flush" /\ stack[1].k = "flush")
             => /\ (stack'[1].pc = "pre" /\ stack[1].pc # "pre")
                      => CallsHook("before", queue[index + 1])
                /\ (HookPhase(stack') /\ ~HookPhase(stack))
                      => /\ Len(stack) = 1
                         /\ stack[1].pc = "break"
                               \/ (stack[1].pc = "loop" /\ index >= Len(queue))
                         /\ activatedQueue' = activatedChildren
                         /\ updatedQueue' = queue
                         /\ queue' = <<>> /\ has' = {} /\ index' = 0
                         /\ ~waiting' /\ ~flushing'
                         /\ activatedChildren' = <<>>
                         /\ stack'[1].pc = "activated" /\ stack'[1].i = 0
                /\ HookPhase(stack)
                      => /\ HookPhase(stack')
                         /\ UNCHANGED <<activatedQueue, updatedQueue>>
                         /\ stack[1].pc = "updated" => stack'[1].pc = "updated"
                         /\ (stack[1].pc = "activated" /\ stack'[1].pc = "updated")
                               => /\ stack[1].i = Len(activatedQueue)
                                  /\ stack'[1].i = Len(updatedQueue)
       /\ (HookPhase(stack) /\ stack' = <<>>)
             => Len(stack) = 1 /\ stack[1].pc = "updated" /\ stack[1].i = 0]_allVars

\* The updated hook of a component runs: the flush ran two watchers, one
\* with a before hook, and a component was activated; the hooks have put a
\* watcher in the new queue, of which the copy the loop walks is
\* independent.
C32_Witness ==
    /\ Len(stack) = 2
    /\ HookPhase(stack)
    /\ stack[2].k = "hook" /\ stack[2].from = "updated"
    /\ Len(updatedQueue) = 2
    /\ \E i \in DOMAIN updatedQueue : updatedQueue[i] \in before
    /\ activatedQueue # <<>>
    /\ queue # <<>>
    /\ stack[2].n > 0

\* C39 as stated: a watcher enqueued from an activated or updated hook is
\* not lost.  The queueWatcher call puts it in the queue with has[id] and
\* waiting set and a flush handed to nextTick; it leaves has only by being
\* run by a flush; and while it waits and nothing is running a flush is
\* pending at the host.
C39_Original ==
    [][/\ \A w \in fromHook' \ fromHook :
             /\ InHook(stack)
             /\ Count(queue', w) = 1 /\ w \in has'
             /\ waiting' /\ ticks' > 0
       /\ \A w \in fromHook :
             w \notin has' => flushRuns'[w] = flushRuns[w] + 1
       /\ (stack' = <<>> /\ ~exc' /\ fromHook' # {}) => ticks' > 0]_allVars
====
